---- MODULE Spec2Model ----
(***************************************************************************)
(* A model of the csw2stac pipeline: the per-record processing loop of     *)
(* CSWSTAConverter.process_records, asset discovery (AssetManager),        *)
(* metadata enrichment (MetadataUpdater), the catalog tree upsert of       *)
(* CSWSTACManager and the pure helpers of Utils it relies on.              *)
(*                                                                         *)
(* Strings that pass through custom_slugify are tuples of one-character    *)
(* strings.  URLs are opaque names whose suffix and pattern matches are    *)
(* given by tables.  Dates are naturals whose order is the order of the    *)
(* raw date strings.  A record's identifier in the input file equals its   *)
(* geonetwork_uri field.                                                   *)
(***************************************************************************)
EXTENDS Integers, Sequences, FiniteSets, TLC

(***************************************************************************)
(* Bounds of the model.                                                    *)
(***************************************************************************)
\* number of records in the harvested input file
NumRecords == 2
\* number of runs of process_records (a run ends normally, by an exception or by a crash)
MaxRuns == 2
\* how far beyond the legal range the sampled coordinates lie
Overshoot == 20

None == "None"

(***************************************************************************)
(* Characters and custom_slugify (utils.py 87-95).                         *)
(***************************************************************************)
DigitChars == {"0","1","2","3","4","5","6","7","8","9"}

Range(s) == {s[i] : i \in DOMAIN s}

\* str.lower() on one character
LowerOf == [A |-> "a", B |-> "b", C |-> "c", D |-> "d", E |-> "e", F |-> "f", G |-> "g", H |-> "h",
            I |-> "i", J |-> "j", K |-> "k", L |-> "l", M |-> "m", N |-> "n", O |-> "o", P |-> "p",
            Q |-> "q", R |-> "r", S |-> "s", T |-> "t", U |-> "u", V |-> "v", W |-> "w", X |-> "x",
            Y |-> "y", Z |-> "z"]
LowerChar(c) == IF c \in DOMAIN LowerOf THEN LowerOf[c] ELSE c
\* str.lower() on one character gives one character, except on LATIN CAPITAL
\* LETTER I WITH DOT ABOVE: 'i' and COMBINING DOT ABOVE
LowerChars(c) == IF c = "U+0130" THEN <<"i", "U+0307">> ELSE <<LowerChar(c)>>

\* \s of the regular expressions
IsSpace(c) == c \in {" ", "\t", "\n"}
\* \w of the regular expressions
IsWord(c) == c \in DOMAIN LowerOf \/ c \in Range(LowerOf) \/ c \in DigitChars \/ c = "_" \/ c = "U+0130"

\* re.sub(r'[-\s]+', separator, text): every maximal run of hyphens and
\* whitespace becomes one separator
RECURSIVE SubRuns(_, _)
SubRuns(text, separator) ==
  IF text = <<>> THEN <<>>
  ELSE IF Head(text) = "-" \/ IsSpace(Head(text))
       THEN IF Len(text) > 1 /\ (text[2] = "-" \/ IsSpace(text[2]))
            THEN SubRuns(Tail(text), separator)
            ELSE <<separator>> \o SubRuns(Tail(text), separator)
       ELSE <<Head(text)>> \o SubRuns(Tail(text), separator)

\* re.sub(r'\.(\d)', r'.\1', text): a dot followed by a digit is replaced
\* by the same dot and digit
RECURSIVE SubDotDigit(_)
SubDotDigit(text) ==
  IF text = <<>> THEN <<>>
  ELSE IF Head(text) = "." /\ Len(text) > 1 /\ text[2] \in DigitChars
       THEN <<".", text[2]>> \o SubDotDigit(Tail(Tail(text)))
       ELSE <<Head(text)>> \o SubDotDigit(Tail(text))

\* re.sub(r'[^\w\s.-]', '', text)
RECURSIVE SubStrip(_)
SubStrip(text) ==
  IF text = <<>> THEN <<>>
  ELSE IF IsWord(Head(text)) \/ IsSpace(Head(text)) \/ Head(text) \in {".", "-"}
       THEN <<Head(text)>> \o SubStrip(Tail(text))
       ELSE SubStrip(Tail(text))

\* text.lower()
RECURSIVE Lower(_)
Lower(text) ==
  IF text = <<>> THEN <<>> ELSE LowerChars(Head(text)) \o Lower(Tail(text))

custom_slugify(text) == Lower(SubStrip(SubDotDigit(SubRuns(text, "_"))))

(***************************************************************************)
(* Utils.finalize_boundaries (utils.py 717-773).  A coordinate is a record *)
(* [kind, val]: a number ("num"), a string holding a number ("numstr"),    *)
(* float NaN ("nan"), None ("none"), the string 'nan' in any case          *)
(* ("nanstr") or any other string ("str").  A bbox is a tuple of           *)
(* coordinates; the empty tuple is an absent, None or empty field.         *)
(***************************************************************************)
Num(v) == [kind |-> "num", val |-> v]

WORLD == <<-180, -90, 180, 90>>

\* pd.isna(coord) or math.isnan(coord) or coord.lower() == 'nan'
IsNaNLike(coord) == coord.kind \in {"nan", "none", "nanstr"}

\* float(coord) succeeds
IsFloatable(coord) == coord.kind \in {"num", "numstr"}

\* validate_and_convert returning max_val for every value out of range
validate_and_convert_to_max(coord, min_val, max_val, coord_name) ==
  IF IsFloatable(coord)
  THEN IF coord.val < min_val \/ coord.val > max_val THEN max_val ELSE coord.val
  ELSE (IF coord_name \in {"longitude minimum", "latitude minimum"} THEN min_val ELSE max_val)

validate_and_convert(coord, min_val, max_val, coord_name) ==
  IF IsFloatable(coord)
  THEN IF coord.val < min_val \/ coord.val > max_val
       THEN (IF coord.val < min_val THEN min_val ELSE max_val)
       ELSE coord.val
  ELSE (IF coord_name \in {"longitude minimum", "latitude minimum"} THEN min_val ELSE max_val)

\* convert_bbox not looking for a NaN-like value in the fourth coordinate
convert_bbox_fourth_unchecked(bbox) ==
  IF \E i \in DOMAIN bbox : i < 4 /\ IsNaNLike(bbox[i])
  THEN WORLD
  ELSE << validate_and_convert(bbox[1], -180, 180, "longitude minimum"),
          validate_and_convert(bbox[2], -90, 90, "latitude minimum"),
          validate_and_convert(bbox[3], -180, 180, "longitude maximum"),
          validate_and_convert(bbox[4], -90, 90, "latitude maximum") >>

convert_bbox(bbox) ==
  IF \E i \in DOMAIN bbox : IsNaNLike(bbox[i])
  THEN WORLD
  ELSE << validate_and_convert(bbox[1], -180, 180, "longitude minimum"),
          validate_and_convert(bbox[2], -90, 90, "latitude minimum"),
          validate_and_convert(bbox[3], -180, 180, "longitude maximum"),
          validate_and_convert(bbox[4], -90, 90, "latitude maximum") >>

\* bbox[i] of a list with fewer than four elements raises IndexError
finalize_boundaries_raises(metadata) ==
  LET bbox == IF metadata.bbox # <<>> THEN metadata.bbox ELSE metadata.geographic_extent
  IN bbox # <<>> /\ Len(bbox) < 4 /\ ~ \E i \in DOMAIN bbox : IsNaNLike(bbox[i])

finalize_boundaries(metadata) ==
  IF metadata.bbox # <<>> THEN convert_bbox(metadata.bbox)
  ELSE IF metadata.geographic_extent # <<>> THEN convert_bbox(metadata.geographic_extent)
  ELSE WORLD

(***************************************************************************)
(* The classification tables of Utils, in source order.                    *)
(*   media_types, url_patterns : <<rule, asset_type, title, mediatype,     *)
(*   role>>;  the lookup dictionaries : <<key, label>>.                    *)
(***************************************************************************)
media_types == <<
  <<".zarr", "zarr", "Zarr", "application/vnd+zarr", "data">>,
  <<".zarr/", "zarr", "Zarr", "application/vnd+zarr", "data">>,
  <<".nc", "netcdf", "NetCDF", "application/vnd+netcdf", "data">>,
  <<".zip", "zip", "Zip", "application/zip", "data">>,
  <<".tif", "geotiff", "GeoTIFF", "image/tiff; application=geotiff", "data">>,
  <<".tiff", "geotiff", "GeoTIFF", "image/tiff; application=geotiff", "data">>,
  <<".parquet", "parquet", "Parquet", "application/vnd+parquet", "data">>,
  <<".parquet/", "parquet", "Parquet", "application/vnd+parquet", "data">>,
  <<".geoparquet", "geoparquet", "GeoParquet", "application/vnd+parquet", "data">>,
  <<".geoparquet/", "geoparquet", "GeoParquet", "application/vnd+parquet", "data">>,
  <<".csv", "csv", "CSV", "text/csv", "data">>,
  <<".json", "json", "JSON", "application/json", "metadata">>,
  <<".html", "html", "HTML", "text/html", "metadata">>,
  <<".png", "png", "PNG", "image/png", "thumbnail">>,
  <<".jpg", "jpg", "JPEG", "image/jpeg", "thumbnail">> >>

url_patterns == <<
  <<"opendap", "opendap", "OPeNDAP ", "application/opendap", "data">>,
  <<"wms", "wms", "WMS", "OGC:WMS", "thumbnail">>,
  <<"wfs", "wfs", "WFS", "OGC:WFS", "data">>,
  <<"wms?SERVICE=WMS&REQUEST=GetMap", "wms", "WMS", "OGC:WMS", "thumbnail">>,
  <<"wfs?SERVICE=WFS&REQUEST=GetFeature", "wfs", "WFS", "OGC:WFS", "data">>,
  <<"request=GetFeature&outputFormat=text%2Fcsv", "wfscsv", "CSV", "text/csv", "data">>,
  <<"xml", "xml", "XML", "application/xml", "metadata">>,
  <<"csw\\?request=", "csw", "CSW", "application/csw", "metadata">>,
  <<"doi.org", "doi", "DOI", "application/vnd+doi", "data">>,
  <<"doi:", "doi", "DOI", "application/vnd+doi", "data">>,
  <<"eurobis.org/toolbox/en/download/", "eurobistoolbox", "Eurobis toolbox", "application/html", "metadata">>,
  <<"gbif.org/dataset/", "gbifdataset", "GBIF Dataset", "application/html", "metadata">>,
  <<"ipt\\.[a-zA-Z0-9-]+\\.[a-zA-Z]+(?:/.*)?/resource\\?r=", "iptresource", "IPT Resource", "application/html", "metadata">>,
  <<"ipt\\.[a-zA-Z0-9-]+\\.[a-zA-Z]+(?:/.*)?(?:/archive\\.do\\?)", "iptdwca", "Darwin Core Archive", "application/zip", "data">>,
  <<"mda.vliz.be/directlink.php?", "mdazip", "Zip", "application/zip", "data">>,
  <<"mda.vliz.be/mda/directlink.php?", "mdazip", "Zip", "application/zip", "data">> >>

collection_dict == <<
  <<"seabed-habitats", "Seabed Habitats", <<"s","e","a","b","e","d","-","h","a","b","i","t","a","t","s">>>>,
  <<"seabedhabitats", "Seabed Habitats", <<"s","e","a","b","e","d","h","a","b","i","t","a","t","s">>>>,
  <<"emodnet-seabedhabitats", "Seabed Habitats", <<"e","m","o","d","n","e","t","-","s","e","a","b","e","d","h","a","b","i","t","a","t","s">>>>,
  <<"EMODnet Seabed Habitats", "Seabed Habitats", <<"E","M","O","D","n","e","t"," ","S","e","a","b","e","d"," ","H","a","b","i","t","a","t","s">>>>,
  <<"bathymetry", "Bathymetry", <<"b","a","t","h","y","m","e","t","r","y">>>>,
  <<"EMODnet Bathymetry", "Bathymetry", <<"E","M","O","D","n","e","t"," ","B","a","t","h","y","m","e","t","r","y">>>>,
  <<"emodnet-bathymetry", "Bathymetry", <<"e","m","o","d","n","e","t","-","b","a","t","h","y","m","e","t","r","y">>>>,
  <<"geology", "Geology", <<"g","e","o","l","o","g","y">>>>,
  <<"EMODnet Geology", "Geology", <<"E","M","O","D","n","e","t"," ","G","e","o","l","o","g","y">>>>,
  <<"emodnet-geology", "Geology", <<"e","m","o","d","n","e","t","-","g","e","o","l","o","g","y">>>>,
  <<"chemistry", "Chemistry", <<"c","h","e","m","i","s","t","r","y">>>>,
  <<"emodnet-chemistry", "Chemistry", <<"e","m","o","d","n","e","t","-","c","h","e","m","i","s","t","r","y">>>>,
  <<"EMODnet Chemistry", "Chemistry", <<"E","M","O","D","n","e","t"," ","C","h","e","m","i","s","t","r","y">>>>,
  <<"gbif", "Biology", <<"g","b","i","f">>>>,
  <<"eurobis", "Biology", <<"e","u","r","o","b","i","s">>>>,
  <<"obis", "Biology", <<"o","b","i","s">>>>,
  <<"ipt", "Biology", <<"i","p","t">>>>,
  <<"mda.vliz", "Biology", <<"m","d","a",".","v","l","i","z">>>>,
  <<"emodnet-biology", "Biology", <<"e","m","o","d","n","e","t","-","b","i","o","l","o","g","y">>>>,
  <<"EMODnet Biology", "Biology", <<"E","M","O","D","n","e","t"," ","B","i","o","l","o","g","y">>>>,
  <<"emodnet-physics", "Physics", <<"e","m","o","d","n","e","t","-","p","h","y","s","i","c","s">>>>,
  <<"EMODnet Physics", "Physics", <<"E","M","O","D","n","e","t"," ","P","h","y","s","i","c","s">>>>,
  <<"physics", "Physics", <<"p","h","y","s","i","c","s">>>>,
  <<"humanactivities", "Human Activities", <<"h","u","m","a","n","a","c","t","i","v","i","t","i","e","s">>>>,
  <<"emodnet-humanactivities", "Human Activities", <<"e","m","o","d","n","e","t","-","h","u","m","a","n","a","c","t","i","v","i","t","i","e","s">>>>,
  <<"EMODnet Human Activities", "Human Activities", <<"E","M","O","D","n","e","t"," ","H","u","m","a","n"," ","A","c","t","i","v","i","t","i","e","s">>>> >>

emodnet_provider_dict == <<
  <<"seabed-habitats", "EMODnet Seabed Habitats", <<"s","e","a","b","e","d","-","h","a","b","i","t","a","t","s">>>>,
  <<"seabedhabitats", "EMODnet Seabed Habitats", <<"s","e","a","b","e","d","h","a","b","i","t","a","t","s">>>>,
  <<"emodnet-seabedhabitats", "EMODnet Seabed Habitats", <<"e","m","o","d","n","e","t","-","s","e","a","b","e","d","h","a","b","i","t","a","t","s">>>>,
  <<"EMODnet Seabed Habitats", "EMODnet Seabed Habitats", <<"E","M","O","D","n","e","t"," ","S","e","a","b","e","d"," ","H","a","b","i","t","a","t","s">>>>,
  <<"bathymetry", "EMODnet Bathymetry", <<"b","a","t","h","y","m","e","t","r","y">>>>,
  <<"EMODnet Bathymetry", "EMODnet Bathymetry", <<"E","M","O","D","n","e","t"," ","B","a","t","h","y","m","e","t","r","y">>>>,
  <<"emodnet-bathymetry", "EMODnet Bathymetry", <<"e","m","o","d","n","e","t","-","b","a","t","h","y","m","e","t","r","y">>>>,
  <<"geology", "EMODnet Geology", <<"g","e","o","l","o","g","y">>>>,
  <<"EMODnet Geology", "EMODnet Geology", <<"E","M","O","D","n","e","t"," ","G","e","o","l","o","g","y">>>>,
  <<"emodnet-geology", "EMODnet Geology", <<"e","m","o","d","n","e","t","-","g","e","o","l","o","g","y">>>>,
  <<"chemistry", "EMODnet Chemistry", <<"c","h","e","m","i","s","t","r","y">>>>,
  <<"emodnet-chemistry", "EMODnet Chemistry", <<"e","m","o","d","n","e","t","-","c","h","e","m","i","s","t","r","y">>>>,
  <<"EMODnet Chemistry", "EMODnet Chemistry", <<"E","M","O","D","n","e","t"," ","C","h","e","m","i","s","t","r","y">>>>,
  <<"eurobis", "EMODnet Biology", <<"e","u","r","o","b","i","s">>>>,
  <<"obis", "EMODnet Biology", <<"o","b","i","s">>>>,
  <<"gbif", "EMODnet Biology", <<"g","b","i","f">>>>,
  <<"ipt", "EMODnet Biology", <<"i","p","t">>>>,
  <<"mda.vliz", "EMODnet Biology", <<"m","d","a",".","v","l","i","z">>>>,
  <<"emodnet-biology", "EMODnet Biology", <<"e","m","o","d","n","e","t","-","b","i","o","l","o","g","y">>>>,
  <<"EMODnet Biology", "EMODnet Biology", <<"E","M","O","D","n","e","t"," ","B","i","o","l","o","g","y">>>>,
  <<"emodnet-physics", "EMODnet Physics", <<"e","m","o","d","n","e","t","-","p","h","y","s","i","c","s">>>>,
  <<"EMODnet Physics", "EMODnet Physics", <<"E","M","O","D","n","e","t"," ","P","h","y","s","i","c","s">>>>,
  <<"physics", "EMODnet Physics", <<"p","h","y","s","i","c","s">>>>,
  <<"humanactivities", "EMODnet Human Activities", <<"h","u","m","a","n","a","c","t","i","v","i","t","i","e","s">>>>,
  <<"emodnet-humanactivities", "EMODnet Human Activities", <<"e","m","o","d","n","e","t","-","h","u","m","a","n","a","c","t","i","v","i","t","i","e","s">>>>,
  <<"EMODnet Human Activities", "EMODnet Human Activities", <<"E","M","O","D","n","e","t"," ","H","u","m","a","n"," ","A","c","t","i","v","i","t","i","e","s">>>> >>

emodnet_metadata_dict == <<
  <<"litter", "litter", <<"l","i","t","t","e","r">>>>,
  <<"oxygen", "o2", <<"o","x","y","g","e","n">>>>,
  <<"alkalinity", "ph", <<"a","l","k","a","l","i","n","i","t","y">>>>,
  <<"acidity", "ph", <<"a","c","i","d","i","t","y">>>>,
  <<"salinity", "Salinity", <<"s","a","l","i","n","i","t","y">>>>,
  <<"contaminants", "Contaminants", <<"c","o","n","t","a","m","i","n","a","n","t","s">>>>,
  <<"phosphate", "Nutrients", <<"p","h","o","s","p","h","a","t","e">>>>,
  <<"nitrate", "Nutrients", <<"n","i","t","r","a","t","e">>>>,
  <<"silicate", "Nutrients", <<"s","i","l","i","c","a","t","e">>>>,
  <<"currents", "Currents", <<"c","u","r","r","e","n","t","s">>>>,
  <<"temperature", "Temperature", <<"t","e","m","p","e","r","a","t","u","r","e">>>>,
  <<"waves", "Waves", <<"w","a","v","e","s">>>>,
  <<"elevation", "Elevation", <<"e","l","e","v","a","t","i","o","n">>>>,
  <<"seabed-habitats", "Seabed habitats", <<"s","e","a","b","e","d","-","h","a","b","i","t","a","t","s">>>>,
  <<"seabedhabitats", "Seabed habitats", <<"s","e","a","b","e","d","h","a","b","i","t","a","t","s">>>>,
  <<"emodnet-seabedhabitats", "Seabed habitats", <<"e","m","o","d","n","e","t","-","s","e","a","b","e","d","h","a","b","i","t","a","t","s">>>>,
  <<"EMODnet Seabed Habitats", "Seabed habitats", <<"E","M","O","D","n","e","t"," ","S","e","a","b","e","d"," ","H","a","b","i","t","a","t","s">>>>,
  <<"bathymetry", "Elevation", <<"b","a","t","h","y","m","e","t","r","y">>>>,
  <<"EMODnet Bathymetry", "Elevation", <<"E","M","O","D","n","e","t"," ","B","a","t","h","y","m","e","t","r","y">>>>,
  <<"emodnet-bathymetry", "Elevation", <<"e","m","o","d","n","e","t","-","b","a","t","h","y","m","e","t","r","y">>>>,
  <<"geology", "Marine geology", <<"g","e","o","l","o","g","y">>>>,
  <<"EMODnet Geology", "Marine geology", <<"E","M","O","D","n","e","t"," ","G","e","o","l","o","g","y">>>>,
  <<"emodnet-geology", "Marine geology", <<"e","m","o","d","n","e","t","-","g","e","o","l","o","g","y">>>>,
  <<"chemistry", "Chemistry", <<"c","h","e","m","i","s","t","r","y">>>>,
  <<"emodnet-chemistry", "Chemistry", <<"e","m","o","d","n","e","t","-","c","h","e","m","i","s","t","r","y">>>>,
  <<"EMODnet Chemistry", "Chemistry", <<"E","M","O","D","n","e","t"," ","C","h","e","m","i","s","t","r","y">>>>,
  <<"eurobis", "Biodiversity", <<"e","u","r","o","b","i","s">>>>,
  <<"gbif", "Biodiversity", <<"g","b","i","f">>>>,
  <<"obis", "Biodiversity", <<"o","b","i","s">>>>,
  <<"ipt", "Biodiversity", <<"i","p","t">>>>,
  <<"mda.vliz", "Biodiversity", <<"m","d","a",".","v","l","i","z">>>>,
  <<"emodnet-biology", "Biodiversity", <<"e","m","o","d","n","e","t","-","b","i","o","l","o","g","y">>>>,
  <<"EMODnet Biology", "Biodiversity", <<"E","M","O","D","n","e","t"," ","B","i","o","l","o","g","y">>>>,
  <<"emodnet-physics", "Physics", <<"e","m","o","d","n","e","t","-","p","h","y","s","i","c","s">>>>,
  <<"EMODnet Physics", "Physics", <<"E","M","O","D","n","e","t"," ","P","h","y","s","i","c","s">>>>,
  <<"physics", "Physics", <<"p","h","y","s","i","c","s">>>>,
  <<"humanactivities", "Human marine activities", <<"h","u","m","a","n","a","c","t","i","v","i","t","i","e","s">>>>,
  <<"emodnet-humanactivities", "Human marine activities", <<"e","m","o","d","n","e","t","-","h","u","m","a","n","a","c","t","i","v","i","t","i","e","s">>>>,
  <<"EMODnet Human Activities", "Human marine activities", <<"E","M","O","D","n","e","t"," ","H","u","m","a","n"," ","A","c","t","i","v","i","t","i","e","s">>>> >>

\* the characters of the labels and keys of the tables
Chars(s) ==
  CASE s = "Bathymetry" -> <<"B","a","t","h","y","m","e","t","r","y">>
    [] s = "Biodiversity" -> <<"B","i","o","d","i","v","e","r","s","i","t","y">>
    [] s = "Biology" -> <<"B","i","o","l","o","g","y">>
    [] s = "Chemistry" -> <<"C","h","e","m","i","s","t","r","y">>
    [] s = "Contaminants" -> <<"C","o","n","t","a","m","i","n","a","n","t","s">>
    [] s = "Currents" -> <<"C","u","r","r","e","n","t","s">>
    [] s = "EMODnet" -> <<"E","M","O","D","n","e","t">>
    [] s = "Elevation" -> <<"E","l","e","v","a","t","i","o","n">>
    [] s = "Geology" -> <<"G","e","o","l","o","g","y">>
    [] s = "Human Activities" -> <<"H","u","m","a","n"," ","A","c","t","i","v","i","t","i","e","s">>
    [] s = "Human marine activities" -> <<"H","u","m","a","n"," ","m","a","r","i","n","e"," ","a","c","t","i","v","i","t","i","e","s">>
    [] s = "Marine geology" -> <<"M","a","r","i","n","e"," ","g","e","o","l","o","g","y">>
    [] s = "Nutrients" -> <<"N","u","t","r","i","e","n","t","s">>
    [] s = "Physics" -> <<"P","h","y","s","i","c","s">>
    [] s = "Salinity" -> <<"S","a","l","i","n","i","t","y">>
    [] s = "Seabed Habitats" -> <<"S","e","a","b","e","d"," ","H","a","b","i","t","a","t","s">>
    [] s = "Seabed habitats" -> <<"S","e","a","b","e","d"," ","h","a","b","i","t","a","t","s">>
    [] s = "Temperature" -> <<"T","e","m","p","e","r","a","t","u","r","e">>
    [] s = "Waves" -> <<"W","a","v","e","s">>
    [] s = "litter" -> <<"l","i","t","t","e","r">>
    [] s = "o2" -> <<"o","2">>
    [] s = "ph" -> <<"p","h">>
    [] s = "seabed-habitats" -> <<"s","e","a","b","e","d","-","h","a","b","i","t","a","t","s">>
    [] s = "seabedhabitats" -> <<"s","e","a","b","e","d","h","a","b","i","t","a","t","s">>
    [] s = "emodnet-seabedhabitats" -> <<"e","m","o","d","n","e","t","-","s","e","a","b","e","d","h","a","b","i","t","a","t","s">>
    [] s = "EMODnet Seabed Habitats" -> <<"E","M","O","D","n","e","t"," ","S","e","a","b","e","d"," ","H","a","b","i","t","a","t","s">>
    [] s = "bathymetry" -> <<"b","a","t","h","y","m","e","t","r","y">>
    [] s = "EMODnet Bathymetry" -> <<"E","M","O","D","n","e","t"," ","B","a","t","h","y","m","e","t","r","y">>
    [] s = "emodnet-bathymetry" -> <<"e","m","o","d","n","e","t","-","b","a","t","h","y","m","e","t","r","y">>
    [] s = "geology" -> <<"g","e","o","l","o","g","y">>
    [] s = "EMODnet Geology" -> <<"E","M","O","D","n","e","t"," ","G","e","o","l","o","g","y">>
    [] s = "emodnet-geology" -> <<"e","m","o","d","n","e","t","-","g","e","o","l","o","g","y">>
    [] s = "chemistry" -> <<"c","h","e","m","i","s","t","r","y">>
    [] s = "emodnet-chemistry" -> <<"e","m","o","d","n","e","t","-","c","h","e","m","i","s","t","r","y">>
    [] s = "EMODnet Chemistry" -> <<"E","M","O","D","n","e","t"," ","C","h","e","m","i","s","t","r","y">>
    [] s = "gbif" -> <<"g","b","i","f">>
    [] s = "eurobis" -> <<"e","u","r","o","b","i","s">>
    [] s = "obis" -> <<"o","b","i","s">>
    [] s = "ipt" -> <<"i","p","t">>
    [] s = "mda.vliz" -> <<"m","d","a",".","v","l","i","z">>
    [] s = "emodnet-biology" -> <<"e","m","o","d","n","e","t","-","b","i","o","l","o","g","y">>
    [] s = "EMODnet Biology" -> <<"E","M","O","D","n","e","t"," ","B","i","o","l","o","g","y">>
    [] s = "emodnet-physics" -> <<"e","m","o","d","n","e","t","-","p","h","y","s","i","c","s">>
    [] s = "EMODnet Physics" -> <<"E","M","O","D","n","e","t"," ","P","h","y","s","i","c","s">>
    [] s = "physics" -> <<"p","h","y","s","i","c","s">>
    [] s = "humanactivities" -> <<"h","u","m","a","n","a","c","t","i","v","i","t","i","e","s">>
    [] s = "emodnet-humanactivities" -> <<"e","m","o","d","n","e","t","-","h","u","m","a","n","a","c","t","i","v","i","t","i","e","s">>
    [] s = "EMODnet Human Activities" -> <<"E","M","O","D","n","e","t"," ","H","u","m","a","n"," ","A","c","t","i","v","i","t","i","e","s">>
    [] s = "oxygen" -> <<"o","x","y","g","e","n">>
    [] s = "alkalinity" -> <<"a","l","k","a","l","i","n","i","t","y">>
    [] s = "acidity" -> <<"a","c","i","d","i","t","y">>
    [] s = "salinity" -> <<"s","a","l","i","n","i","t","y">>
    [] s = "contaminants" -> <<"c","o","n","t","a","m","i","n","a","n","t","s">>
    [] s = "phosphate" -> <<"p","h","o","s","p","h","a","t","e">>
    [] s = "nitrate" -> <<"n","i","t","r","a","t","e">>
    [] s = "silicate" -> <<"s","i","l","i","c","a","t","e">>
    [] s = "currents" -> <<"c","u","r","r","e","n","t","s">>
    [] s = "temperature" -> <<"t","e","m","p","e","r","a","t","u","r","e">>
    [] s = "waves" -> <<"w","a","v","e","s">>
    [] s = "elevation" -> <<"e","l","e","v","a","t","i","o","n">>
    [] s = "Unknown" -> <<"U","n","k","n","o","w","n">>
    [] s = "VLIZ" -> <<"V","L","I","Z">>
    [] s = "geology and bathymetry" -> <<"g","e","o","l","o","g","y"," ","a","n","d"," ","b","a","t","h","y","m","e","t","r","y">>
    [] s = "" -> <<>>
U_png == "https://ows.example.org/preview/thumb.png"
U_zip == "https://ows.example.org/files/data.zip"
U_zip2 == "https://ows.example.org/files/more.zip"
U_html == "https://ows.example.org/about.html"
U_unk == "https://ows.example.org/contact"
U_wfs == "https://ows.example.org/geoserver/wfs"
U_wms == "https://ows.emodnet-bathymetry.eu/wms"
U_ipt == "http://ipt.vliz.be/eurobis/resource?r=zoobenthos"
U_toolbox == "https://www.eurobis.org/toolbox/en/download/occurrence/dataset/4494"
U_opendap == "https://erddap.example.org/opendap/sst"
U_mda == "mda.vliz.be/mda/directlink.php?fid=VLIZ_00000727"
U_xml == "https://emodnet.ec.europa.eu/geonetwork/srv/api/records/{geonetwork_uri}/formatters/xml"
U_csw == "https://emodnet.ec.europa.eu/geonetwork/emodnet/eng/csw?request=GetRecordById&service=CSW&version=2.0.2&elementSetName=full&id={geonetwork_uri}"
U_wms_request == "https://ows.emodnet-bathymetry.eu/wms?SERVICE=WMS&VERSION=1.3.0&REQUEST=GetMap&LAYERS=layer&STYLES=&CRS=EPSG:4326&BBOX=-180,-90,180,90&WIDTH=800&HEIGHT=600&FORMAT=image/png"
U_dwca == "https://ipt.vliz.be/eurobis/archive.do?r=zoobenthos"
U_toolbox_wfs == "https://geo.vliz.be/geoserver/Dataportal/wfs?service=wfs&version=1.1.0&typeName=eurobis-obisenv_basic&request=GetFeature&outputFormat=text%2Fcsv&viewParams=datasetid%3A4494"
U_mda_direct == "https://mda.vliz.be/directlink.php?fid=VLIZ_00000727"
U_wfs_zip == "https://ows.example.org/geoserver/wfs/export.zip"
U_xml_json == "https://ows.example.org/xml/record.json"

\* the suffixes of media_types a URL ends with (str.endswith)
UrlSuffixes(href) ==
  CASE href = U_png -> {".png"}
    [] href = U_zip -> {".zip"}
    [] href = U_zip2 -> {".zip"}
    [] href = U_html -> {".html"}
    [] href = U_unk -> {}
    [] href = U_wfs -> {}
    [] href = U_wms -> {}
    [] href = U_ipt -> {}
    [] href = U_toolbox -> {}
    [] href = U_opendap -> {}
    [] href = U_mda -> {}
    [] href = U_xml -> {}
    [] href = U_csw -> {}
    [] href = U_wms_request -> {}
    [] href = U_dwca -> {}
    [] href = U_toolbox_wfs -> {}
    [] href = U_mda_direct -> {}
    [] href = U_wfs_zip -> {".zip"}
    [] href = U_xml_json -> {".json"}
    [] OTHER -> {}

\* the patterns of url_patterns found in a URL (re.search)
UrlMatches(href) ==
  CASE href = U_png -> {}
    [] href = U_zip -> {}
    [] href = U_zip2 -> {}
    [] href = U_html -> {}
    [] href = U_unk -> {}
    [] href = U_wfs -> {"wfs"}
    [] href = U_wms -> {"wms"}
    [] href = U_ipt -> {"ipt\\.[a-zA-Z0-9-]+\\.[a-zA-Z]+(?:/.*)?/resource\\?r="}
    [] href = U_toolbox -> {"eurobis.org/toolbox/en/download/"}
    [] href = U_opendap -> {"opendap"}
    [] href = U_mda -> {"mda.vliz.be/mda/directlink.php?"}
    [] href = U_xml -> {"xml"}
    [] href = U_csw -> {"csw\\?request="}
    [] href = U_wms_request -> {"wms"}
    [] href = U_dwca -> {"ipt\\.[a-zA-Z0-9-]+\\.[a-zA-Z]+(?:/.*)?(?:/archive\\.do\\?)"}
    [] href = U_toolbox_wfs -> {"wfs", "request=GetFeature&outputFormat=text%2Fcsv"}
    [] href = U_mda_direct -> {"mda.vliz.be/directlink.php?"}
    [] href = U_wfs_zip -> {"wfs"}
    [] href = U_xml_json -> {"xml"}
    [] OTHER -> {}

\* the table keys occurring in a URL (key in asset)
UrlKeys(href) ==
  CASE href = U_png -> {}
    [] href = U_zip -> {}
    [] href = U_zip2 -> {}
    [] href = U_html -> {}
    [] href = U_unk -> {}
    [] href = U_wfs -> {}
    [] href = U_wms -> {"bathymetry", "emodnet-bathymetry"}
    [] href = U_ipt -> {"eurobis", "obis", "ipt"}
    [] href = U_toolbox -> {"eurobis", "obis"}
    [] href = U_opendap -> {}
    [] href = U_mda -> {"mda.vliz"}
    [] href = U_xml -> {}
    [] href = U_csw -> {}
    [] href = U_wms_request -> {"bathymetry", "emodnet-bathymetry"}
    [] href = U_dwca -> {"eurobis", "obis", "ipt"}
    [] href = U_toolbox_wfs -> {"eurobis", "obis"}
    [] href = U_mda_direct -> {"mda.vliz"}
    [] href = U_wfs_zip -> {}
    [] href = U_xml_json -> {}
    [] OTHER -> {}

\* the table keys occurring in the lower-cased URL (key in str(value).lower())
UrlKeysLower(href) ==
  CASE href = U_png -> {}
    [] href = U_zip -> {}
    [] href = U_zip2 -> {}
    [] href = U_html -> {}
    [] href = U_unk -> {}
    [] href = U_wfs -> {}
    [] href = U_wms -> {"bathymetry", "emodnet-bathymetry"}
    [] href = U_ipt -> {"eurobis", "obis", "ipt"}
    [] href = U_toolbox -> {"eurobis", "obis"}
    [] href = U_opendap -> {}
    [] href = U_mda -> {"mda.vliz"}
    [] href = U_xml -> {}
    [] href = U_csw -> {}
    [] href = U_wms_request -> {"bathymetry", "emodnet-bathymetry"}
    [] href = U_dwca -> {"eurobis", "obis", "ipt"}
    [] href = U_toolbox_wfs -> {"eurobis", "obis"}
    [] href = U_mda_direct -> {"mda.vliz"}
    [] href = U_wfs_zip -> {}
    [] href = U_xml_json -> {}
    [] OTHER -> {}

\* key in text, both as sequences of characters
IsSubstr(k, t) == \E i \in 0..(Len(t) - Len(k)) : SubSeq(t, i + 1, i + Len(k)) = k

\* the first row of a table, in its order, whose rule is one of those met; 0 if none
FirstRow(table, met) ==
  IF \E r \in DOMAIN table : table[r][1] \in met
  THEN CHOOSE r \in DOMAIN table : table[r][1] \in met /\ \A q \in 1..(r - 1) : table[q][1] \notin met
  ELSE 0

(***************************************************************************)
(* Utils.get_media_type (utils.py 133-194).                                *)
(***************************************************************************)
Unclassified == [asset_type |-> None, title |-> None, mediatype |-> None, role |-> None]

RuleResult(row) == [asset_type |-> row[2], title |-> row[3], mediatype |-> row[4], role |-> row[5]]

\* get_media_type consulting url_patterns before media_types
get_media_type_patterns_first(asset_url) ==
  LET e == FirstRow(media_types, UrlSuffixes(asset_url))
      p == FirstRow(url_patterns, UrlMatches(asset_url))
  IN IF p # 0 THEN RuleResult(url_patterns[p])
     ELSE IF e # 0 THEN RuleResult(media_types[e])
     ELSE Unclassified

get_media_type(asset_url) ==
  LET e == FirstRow(media_types, UrlSuffixes(asset_url))
      p == FirstRow(url_patterns, UrlMatches(asset_url))
  IN IF e # 0 THEN RuleResult(media_types[e])
     ELSE IF p # 0 THEN RuleResult(url_patterns[p])
     ELSE Unclassified

(***************************************************************************)
(* The layered keyword lookups of Utils.  A lookup returns the label of    *)
(* the first key, in table order, found in the first value that holds any  *)
(* key; the empty string stands for "no match in this layer".              *)
(***************************************************************************)
SetMin(S) == CHOOSE x \in S : \A y \in S : x <= y
SetMax(S) == CHOOSE x \in S : \A y \in S : x >= y

\* a row of a dictionary: its key, its value, the characters of its key.
\* hits[v] holds the rows whose key is found in the v-th value: the value of
\* the first row found in the first value that holds any key, else nothing
FirstHit(rows, hits) ==
  IF \A v \in DOMAIN hits : hits[v] = {} THEN ""
  ELSE rows[SetMin(hits[SetMin({v \in DOMAIN hits : hits[v] # {}})])][2]

\* the result of a layer if it found a key, else that of the layers after it
OrElse(layer, later) == IF layer # "" THEN layer ELSE later

\* key in asset, for the keys found in a URL or in its lower case
InUrls(rows, assets) == [v \in DOMAIN assets |-> {r \in DOMAIN rows : rows[r][1] \in UrlKeys(assets[v])}]
InLowerUrls(rows, assets) == [v \in DOMAIN assets |-> {r \in DOMAIN rows : rows[r][1] \in UrlKeysLower(assets[v])}]
\* key in text, for each text of a sequence of texts given as characters
InTexts(rows, texts) == [v \in DOMAIN texts |-> {r \in DOMAIN rows : IsSubstr(rows[r][3], texts[v])}]
\* key in provider['name']
InProviderNames(rows, providers) ==
  [v \in DOMAIN providers |-> {r \in DOMAIN rows : IsSubstr(rows[r][3], Chars(providers[v].name))}]
\* provider['name'] in key
ProviderNamesIn(rows, providers) ==
  [v \in DOMAIN providers |-> {r \in DOMAIN rows : IsSubstr(Chars(providers[v].name), rows[r][3])}]
\* key in subjects, the list
InList(rows, subjects) == <<{r \in DOMAIN rows : rows[r][1] \in Range(subjects)}>>

\* lookup_collection consulting the subjects before the abstract
lookup_collection_subjects_first(metadata) ==
  OrElse(FirstHit(collection_dict, InProviderNames(collection_dict, metadata.provider)),
  OrElse(FirstHit(collection_dict, InUrls(collection_dict, metadata.assets)),
  OrElse(IF metadata.subjects # <<>>
         THEN FirstHit(collection_dict, InList(collection_dict, metadata.subjects)) ELSE "",
  OrElse(IF metadata.abstract # ""
         THEN FirstHit(collection_dict, InTexts(collection_dict, <<Chars(metadata.abstract)>>)) ELSE "",
         "EMODnet"))))

\* Utils.lookup_collection (utils.py 487-549)
lookup_collection(metadata) ==
  OrElse(FirstHit(collection_dict, InProviderNames(collection_dict, metadata.provider)),
  OrElse(FirstHit(collection_dict, InUrls(collection_dict, metadata.assets)),
  OrElse(IF metadata.abstract # ""
         THEN FirstHit(collection_dict, InTexts(collection_dict, <<Chars(metadata.abstract)>>)) ELSE "",
  OrElse(IF metadata.subjects # <<>>
         THEN FirstHit(collection_dict, InList(collection_dict, metadata.subjects)) ELSE "",
         "EMODnet"))))

\* Utils.lookup_thematic_lot (utils.py 552-610)
lookup_thematic_lot(metadata) ==
  OrElse(FirstHit(emodnet_provider_dict, InUrls(emodnet_provider_dict, metadata.assets)),
  OrElse(IF metadata.abstract # ""
         THEN FirstHit(emodnet_provider_dict, InTexts(emodnet_provider_dict, <<Chars(metadata.abstract)>>)) ELSE "",
  OrElse(IF metadata.subjects # <<>>
         THEN FirstHit(emodnet_provider_dict, InList(emodnet_provider_dict, metadata.subjects)) ELSE "",
         "EMODnet")))

\* Utils.lookup_variable_family (utils.py 612-683)
lookup_variable_family(metadata) ==
  OrElse(FirstHit(emodnet_metadata_dict, InLowerUrls(emodnet_metadata_dict, metadata.assets)),
  OrElse(IF metadata.title # <<>>
         THEN FirstHit(emodnet_metadata_dict, InTexts(emodnet_metadata_dict, <<Lower(metadata.title)>>)) ELSE "",
  OrElse(FirstHit(emodnet_metadata_dict,
                  InTexts(emodnet_metadata_dict,
                          [s \in DOMAIN metadata.subjects |-> Lower(Chars(metadata.subjects[s]))])),
  OrElse(FirstHit(emodnet_metadata_dict, ProviderNamesIn(emodnet_metadata_dict, metadata.provider)),
         "EMODnet"))))

\* Utils.update_providers (utils.py 464-485): the last of creator, publisher
\* and distributor that is set names the provider, else the thematic lot
\* found by lookup_thematic_lot; the provider is appended to the list
update_providers(metadata) ==
  LET provider_dict ==
        IF metadata.distributor # "" THEN [name |-> metadata.distributor, roles |-> "distributor"]
        ELSE IF metadata.publisher # "" THEN [name |-> metadata.publisher, roles |-> "publisher"]
        ELSE IF metadata.creator # "" THEN [name |-> metadata.creator, roles |-> "creator"]
        ELSE [name |-> lookup_thematic_lot(metadata), roles |-> "provider"]
  IN [metadata EXCEPT !.provider = Append(@, provider_dict)]

(***************************************************************************)
(* Utils.update_datetimes (utils.py 686-715) and Utils.format_datetime     *)
(* (utils.py 417-447).  A raw date is a four-digit year string, modelled   *)
(* by its number, 0 when the field is absent or empty; format_datetime     *)
(* expands it to the first instant of the year, the number YYYYMMDD.       *)
(***************************************************************************)
DEFAULT_START == 1970
DEFAULT_END == 2100

\* the loop of update_datetimes with each present field overwriting both bounds
RECURSIVE scan_datetimes_last_wins(_, _, _)
scan_datetimes_last_wins(values, start_datetime, end_datetime) ==
  IF values = <<>> THEN <<start_datetime, end_datetime>>
  ELSE IF Head(values) = 0 THEN scan_datetimes_last_wins(Tail(values), start_datetime, end_datetime)
  ELSE scan_datetimes_last_wins(Tail(values), Head(values), Head(values))

RECURSIVE scan_datetimes(_, _, _)
scan_datetimes(values, start_datetime, end_datetime) ==
  IF values = <<>> THEN <<start_datetime, end_datetime>>
  ELSE LET v == Head(values) IN
       IF v = 0 THEN scan_datetimes(Tail(values), start_datetime, end_datetime)
       ELSE LET s1 == IF start_datetime # 0 /\ v < start_datetime THEN v ELSE start_datetime
                e1 == IF end_datetime # 0 /\ v > end_datetime THEN v ELSE end_datetime
                s2 == IF s1 = 0 THEN v ELSE s1
                e2 == IF e1 = 0 THEN v ELSE e1
            IN scan_datetimes(Tail(values), s2, e2)

update_datetimes(metadata) ==
  LET scanned == scan_datetimes(<<metadata.created, metadata.date, metadata.issued, metadata.modified>>,
                                metadata.start_datetime, metadata.end_datetime)
      start_datetime == IF scanned[1] = 0 THEN DEFAULT_START ELSE scanned[1]
      end_datetime == IF scanned[2] = 0 \/ scanned[2] = start_datetime THEN DEFAULT_END ELSE scanned[2]
  IN [metadata EXCEPT !.start_datetime = start_datetime, !.end_datetime = end_datetime]

format_datetime(datetime_str) == datetime_str * 10000 + 101

format_start_end_datetimes_stac(metadata) ==
  [metadata EXCEPT !.start_datetime = format_datetime(@), !.end_datetime = format_datetime(@)]

(***************************************************************************)
(* Asset discovery: AssetManager.find_assets / sort_asset (assets.py       *)
(* 18-131) and the converters of Utils.  The outcome of the live probe of  *)
(* a link is an input: "ok", "fail", or, for a map service, "no_header"    *)
(* (a 200 answer without a Content-Type header).                           *)
(***************************************************************************)
\* AssetManager.construct_wms_request (assets.py 168-184)
construct_wms_request(base_url) == IF base_url = U_wms THEN U_wms_request ELSE base_url
\* the rewriting of Utils.convert_ipt_to_dwca (utils.py 219-232)
convert_ipt_to_dwca(ipt_link) == IF ipt_link = U_ipt THEN U_dwca ELSE ipt_link
\* the rewriting of Utils.convert_eurobis_toolbox_to_wfs (utils.py 196-210)
convert_eurobis_toolbox_to_wfs(url) == IF url = U_toolbox THEN U_toolbox_wfs ELSE url
\* the rewriting of Utils.test_mda (utils.py 254-258)
test_mda(mdalink) == IF mdalink = U_mda THEN U_mda_direct ELSE mdalink

\* the live probes a link of this type allows
ProbeOutcomes(asset_type) ==
  IF asset_type \in {None, "wfs"} THEN {"none"}
  ELSE IF asset_type = "wms" THEN {"ok", "fail", "no_header"}
  ELSE {"ok", "fail"}

AddAsset(csw_record, url, isData, isThumbnail) ==
  [csw_record EXCEPT !.assets = Append(@, url),
                     !.data_assets = IF isData THEN Append(@, url) ELSE @,
                     !.thumbnail_assets = IF isThumbnail THEN Append(@, url) ELSE @]

\* sort_asset keeping a link of role data whatever its probe answered
sort_asset_unprobed(csw_record, link_item, asset_type, role, probe) ==
  IF asset_type = "wms"
  THEN IF probe = "ok" THEN AddAsset(csw_record, construct_wms_request(link_item.url), FALSE, FALSE)
       ELSE csw_record
  ELSE IF asset_type = "wfs" THEN AddAsset(csw_record, link_item.url, TRUE, FALSE)
  ELSE IF asset_type = "iptresource"
  THEN IF probe = "ok" THEN AddAsset(csw_record, convert_ipt_to_dwca(link_item.url), TRUE, FALSE)
       ELSE csw_record
  ELSE IF asset_type = "eurobistoolbox"
  THEN IF probe = "ok" THEN AddAsset(csw_record, convert_eurobis_toolbox_to_wfs(link_item.url), TRUE, FALSE)
       ELSE csw_record
  ELSE IF asset_type = "opendap"
  THEN IF probe = "ok" THEN AddAsset(csw_record, link_item.url, TRUE, FALSE) ELSE csw_record
  ELSE IF asset_type = "mdazip"
  THEN IF probe = "ok" THEN AddAsset(csw_record, test_mda(link_item.url), TRUE, FALSE) ELSE csw_record
  ELSE IF role = "data" THEN AddAsset(csw_record, link_item.url, TRUE, FALSE)
  ELSE IF role = "thumbnail"
  THEN IF probe = "ok" THEN AddAsset(csw_record, link_item.url, FALSE, TRUE) ELSE csw_record
  ELSE IF probe = "ok" THEN AddAsset(csw_record, link_item.url, FALSE, FALSE) ELSE csw_record

sort_asset(csw_record, link_item, asset_type, role, probe) ==
  IF asset_type = "wms"
  THEN IF probe = "ok" THEN AddAsset(csw_record, construct_wms_request(link_item.url), FALSE, FALSE)
       ELSE csw_record
  ELSE IF asset_type = "wfs" THEN AddAsset(csw_record, link_item.url, TRUE, FALSE)
  ELSE IF asset_type = "iptresource"
  THEN IF probe = "ok" THEN AddAsset(csw_record, convert_ipt_to_dwca(link_item.url), TRUE, FALSE)
       ELSE csw_record
  ELSE IF asset_type = "eurobistoolbox"
  THEN IF probe = "ok" THEN AddAsset(csw_record, convert_eurobis_toolbox_to_wfs(link_item.url), TRUE, FALSE)
       ELSE csw_record
  ELSE IF asset_type = "opendap"
  THEN IF probe = "ok" THEN AddAsset(csw_record, link_item.url, TRUE, FALSE) ELSE csw_record
  ELSE IF asset_type = "mdazip"
  THEN IF probe = "ok" THEN AddAsset(csw_record, test_mda(link_item.url), TRUE, FALSE) ELSE csw_record
  ELSE IF role = "data"
  THEN IF probe = "ok" THEN AddAsset(csw_record, link_item.url, TRUE, FALSE) ELSE csw_record
  ELSE IF role = "thumbnail"
  THEN IF probe = "ok" THEN AddAsset(csw_record, link_item.url, FALSE, TRUE) ELSE csw_record
  ELSE IF probe = "ok" THEN AddAsset(csw_record, link_item.url, FALSE, FALSE) ELSE csw_record

\* the loop of find_assets over the first n links
RECURSIVE find_assets(_, _, _)
find_assets(csw_record, probes, n) ==
  IF n = 0 THEN csw_record
  ELSE LET before == find_assets(csw_record, probes, n - 1)
           link_item == csw_record.links[n]
           media == get_media_type(link_item.url)
       IN IF link_item.url = "" THEN before
          ELSE IF media.asset_type = None \/ media.mediatype = None THEN before
          ELSE sort_asset(before, link_item, media.asset_type, media.role, probes[n])

\* verify_wms_request reads response.headers['Content-Type'] (assets.py 197)
find_assets_raises(csw_record, probes) ==
  \E n \in DOMAIN csw_record.links :
     /\ csw_record.links[n].url # ""
     /\ get_media_type(csw_record.links[n].url).asset_type = "wms"
     /\ probes[n] = "no_header"

(***************************************************************************)
(* Metadata enrichment: MetadataUpdater.supplement_metadata               *)
(* (add_metadata.py 21-37).  The answer of the enrichment fetch is an      *)
(* input: "unavailable" (request failed or status not 200), "malformed"    *)
(* (status 200, unparsable body) or "ok", with the bounding box the        *)
(* document holds (empty when it has none).                                *)
(***************************************************************************)
\* look_up_thematic_lot calls Utils.get_provider_collection_family, which
\* Utils does not define (add_metadata.py 175-186)
look_up_thematic_lot_raises(metadata) == metadata.thematic_lot = ""

\* the handler of a parse failure reads self.metadata['name'], a key no
\* record has (add_metadata.py 57-59)
get_xml_root_namespaces_raises(xml) == xml = "malformed"

supplement_metadata(metadata, xml, xml_extent) ==
  IF xml # "ok" THEN metadata
  ELSE [metadata EXCEPT !.assets = Append(Append(@, U_xml), U_csw),
                        !.geographic_extent = IF xml_extent # <<>> THEN xml_extent ELSE @]

(***************************************************************************)
(* The catalog tree of CSWSTACManager (stac.py).  A catalog holds its      *)
(* children in the order they were added, as does a family its collections *)
(* and a collection its items.                                             *)
(***************************************************************************)
EmptyCatalog == [id |-> "emodnet_geonetwork", children |-> <<>>]

\* collection.get_items() / catalog.get_all_items()
RECURSIVE Concat(_)
Concat(seqs) == IF seqs = <<>> THEN <<>> ELSE Head(seqs) \o Concat(Tail(seqs))

get_collections(catalog) == Concat([f \in DOMAIN catalog.children |-> catalog.children[f].children])
get_all_items(catalog) ==
  LET colls == get_collections(catalog) IN Concat([c \in DOMAIN colls |-> colls[c].items])

Ids(nodes) == [n \in DOMAIN nodes |-> nodes[n].id]

\* get_child(id): the first child with that identifier
ChildIndex(nodes, id) == SetMin({n \in DOMAIN nodes : nodes[n].id = id})

\* the extent of the last item alone
Extent_from_last_item(items) ==
  [ bbox |-> items[Len(items)].bbox,
    interval |-> <<items[Len(items)].start_datetime, items[Len(items)].end_datetime>> ]

\* pystac.Extent.from_items, called at stac.py 193: the smallest box and
\* the smallest time range holding every item
Extent_from_items(items) ==
  [ bbox |-> << SetMin({items[n].bbox[1] : n \in DOMAIN items}),
                SetMin({items[n].bbox[2] : n \in DOMAIN items}),
                SetMax({items[n].bbox[3] : n \in DOMAIN items}),
                SetMax({items[n].bbox[4] : n \in DOMAIN items}) >>,
    interval |-> << SetMin({items[n].start_datetime : n \in DOMAIN items}),
                    SetMax({items[n].end_datetime : n \in DOMAIN items}) >> ]

\* a family is created whether or not the catalog holds one of that identifier
add_variable_family(catalog, current_family) ==
  [ catalog |-> [catalog EXCEPT !.children =
                   Append(@, [id |-> custom_slugify(Chars(current_family)), title |-> current_family,
                              children |-> <<>>])],
    family |-> Len(catalog.children) + 1 ]

\* CSWSTACManager.add_or_use_variable_family (stac.py 62-83): the catalog
\* after the call and the position of the family it returns
add_or_use_variable_family(catalog, current_family) ==
  LET current_family_id == custom_slugify(Chars(current_family))
      variable_family_ids == Ids(catalog.children)
  IN IF current_family_id \notin Range(variable_family_ids)
     THEN LET new_family == [id |-> current_family_id, title |-> current_family, children |-> <<>>]
          IN [ catalog |-> [catalog EXCEPT !.children = Append(@, new_family)],
               family |-> Len(catalog.children) + 1 ]
     ELSE [ catalog |-> catalog, family |-> ChildIndex(catalog.children, current_family_id) ]

\* the providers by name, first role kept (stac.py 90-93)
RECURSIVE unique_providers(_)
unique_providers(providers) ==
  IF providers = <<>> THEN <<>>
  ELSE LET init == unique_providers(SubSeq(providers, 1, Len(providers) - 1))
           last == providers[Len(providers)]
       IN IF \E p \in DOMAIN init : init[p].name = last.name THEN init ELSE Append(init, last)

\* any('EMODnet' in key for key in unique_providers.keys()) (stac.py 96)
HasConvention(providers) == \E p \in DOMAIN providers : IsSubstr(Chars("EMODnet"), Chars(providers[p].name))

collection_id(current_collection, providers) ==
  IF HasConvention(providers)
  THEN <<"e","m","o","d","n","e","t","-">> \o custom_slugify(Chars(current_collection))
  ELSE custom_slugify(Chars(current_collection))

\* collection_convention is bound only when a provider name holds the
\* marker, and is read when a collection is created (stac.py 96-103)
add_or_use_collection_raises(variable_family, current_collection, metadata) ==
  LET providers == unique_providers(update_providers(metadata).provider)
  IN /\ ~HasConvention(providers)
     /\ collection_id(current_collection, providers) \notin Range(Ids(variable_family.children))

\* add_or_use_collection giving a collection it finds the providers and the
\* license of the record
add_or_use_collection_updating(variable_family, current_collection, metadata) ==
  LET updated == update_providers(metadata)
      providers == unique_providers(updated.provider)
      current_collection_id == collection_id(current_collection, providers)
      collection_ids == Ids(variable_family.children)
      license == IF metadata.license # "" THEN metadata.license ELSE "CC-BY-4.0"
  IN IF current_collection_id \notin Range(collection_ids)
     THEN [ family |-> [variable_family EXCEPT !.children =
                          Append(@, [ id |-> current_collection_id, title |-> current_collection,
                                      convention |-> "EMODnet", providers |-> providers,
                                      license |-> license,
                                      extent |-> [bbox |-> WORLD, interval |-> <<0, 0>>],
                                      items |-> <<>> ])],
            collection |-> Len(variable_family.children) + 1,
            metadata |-> updated ]
     ELSE LET found == ChildIndex(variable_family.children, current_collection_id)
          IN [ family |-> [variable_family EXCEPT !.children[found].providers = providers,
                                                  !.children[found].license = license],
               collection |-> found,
               metadata |-> updated ]

\* CSWSTACManager.add_or_use_collection (stac.py 85-121): the family after
\* the call, the position of the collection it returns and the metadata
add_or_use_collection(variable_family, current_collection, metadata) ==
  LET updated == update_providers(metadata)
      providers == unique_providers(updated.provider)
      current_collection_id == collection_id(current_collection, providers)
      collection_ids == Ids(variable_family.children)
  IN IF current_collection_id \notin Range(collection_ids)
     THEN LET new_collection ==
                [ id |-> current_collection_id,
                  title |-> current_collection,
                  convention |-> "EMODnet",
                  providers |-> providers,
                  license |-> IF metadata.license # "" THEN metadata.license ELSE "CC-BY-4.0",
                  extent |-> [bbox |-> WORLD, interval |-> <<0, 0>>],
                  items |-> <<>> ]
          IN [ family |-> [variable_family EXCEPT !.children = Append(@, new_collection)],
               collection |-> Len(variable_family.children) + 1,
               metadata |-> updated ]
     ELSE [ family |-> variable_family,
            collection |-> ChildIndex(variable_family.children, current_collection_id),
            metadata |-> updated ]

\* lookup_assets of add_item (stac.py 132-142): a dictionary from asset
\* type to asset, a later link of the same type replacing an earlier one
lookup_assets(links) ==
  LET classified == {n \in DOMAIN links : get_media_type(links[n]).asset_type # None
                                          /\ get_media_type(links[n]).mediatype # None}
      types == {get_media_type(links[n]).asset_type : n \in classified}
  IN [ t \in types |->
         LET n == SetMax({m \in classified : get_media_type(links[m]).asset_type = t})
         IN [ href |-> links[n], title |-> get_media_type(links[n]).title,
              media_type |-> get_media_type(links[n]).mediatype,
              roles |-> get_media_type(links[n]).role ] ]

\* add_item without the test of the identifier against those of the collection
add_item_appending(metadata, collection) ==
  LET timed == format_start_end_datetimes_stac(update_datetimes(metadata))
      new_item == [ id |-> custom_slugify(metadata.title),
                    bbox |-> finalize_boundaries(metadata),
                    start_datetime |-> timed.start_datetime,
                    end_datetime |-> timed.end_datetime,
                    title |-> metadata.title,
                    provider |-> metadata.provider[1].name,
                    assets |-> lookup_assets(metadata.assets) ]
      items == Append(collection.items, new_item)
  IN IF metadata.title = <<>> \/ DOMAIN new_item.assets = {}
     THEN [collection |-> collection, added |-> FALSE]
     ELSE [ collection |-> [collection EXCEPT !.items = items, !.extent = Extent_from_items(items)],
            added |-> TRUE ]

\* CSWSTACManager.add_item (stac.py 123-200): the collection after the
\* call and whether the item was added (None is returned when it was not)
add_item(metadata, collection) ==
  LET item_ids == Ids(collection.items)
      new_item_id == custom_slugify(metadata.title)
      bbox == finalize_boundaries(metadata)
      timed == format_start_end_datetimes_stac(update_datetimes(metadata))
      new_item == [ id |-> new_item_id,
                    bbox |-> bbox,
                    start_datetime |-> timed.start_datetime,
                    end_datetime |-> timed.end_datetime,
                    title |-> metadata.title,
                    provider |-> metadata.provider[1].name,
                    assets |-> lookup_assets(metadata.assets) ]
      items == Append(collection.items, new_item)
  IN IF metadata.title = <<>> THEN [collection |-> collection, added |-> FALSE]
     ELSE IF new_item_id \in Range(item_ids) THEN [collection |-> collection, added |-> FALSE]
     ELSE IF DOMAIN new_item.assets = {} THEN [collection |-> collection, added |-> FALSE]
     ELSE [ collection |-> [collection EXCEPT !.items = items, !.extent = Extent_from_items(items)],
            added |-> TRUE ]

(***************************************************************************)
(* The progress store: CSWSTAConverter.update_progress and check_stac_ok   *)
(* (csw_to_stac.py 117-172).  The store maps the identifiers that have an  *)
(* entry to their outcome.                                                 *)
(***************************************************************************)
Put(f, k, v) == [x \in DOMAIN f \cup {k} |-> IF x = k THEN v ELSE f[x]]

\* the entry is written only by the four branches of update_progress
update_progress(processed, csw_record, status, reason) ==
  IF \/ status = "failed" /\ reason = "no_assets"
     \/ status = "failed" /\ reason = "already_exists"
     \/ status = "failed" /\ reason = "no_data"
     \/ status = "successful" /\ reason = "Ok"
  THEN Put(processed, csw_record.geonetwork_uri, [in_stac |-> status, reason |-> reason])
  ELSE processed

\* check_stac_ok without the test of the data and thumbnail assets
check_stac_ok_without_no_data(metadata, catalog) ==
  IF Len(metadata.assets) = 0 THEN "no_assets"
  ELSE IF metadata.title = <<>> THEN "record_no_title"
  ELSE IF metadata.title \in Range(Ids(get_all_items(catalog))) THEN "already_exists"
  ELSE "Ok"

\* check_stac_ok without the test of the title
check_stac_ok_without_title(metadata, catalog) ==
  IF Len(metadata.assets) = 0 THEN "no_assets"
  ELSE IF Len(metadata.data_assets) = 0 /\ Len(metadata.thumbnail_assets) = 0 THEN "no_data"
  ELSE IF metadata.title \in Range(Ids(get_all_items(catalog))) THEN "already_exists"
  ELSE "Ok"

\* the reason check_stac_ok rejects the record with, "Ok" when it accepts it
check_stac_ok(metadata, catalog) ==
  IF Len(metadata.assets) = 0 THEN "no_assets"
  ELSE IF Len(metadata.data_assets) = 0 /\ Len(metadata.thumbnail_assets) = 0 THEN "no_data"
  ELSE IF metadata.title = <<>> THEN "record_no_title"
  ELSE IF metadata.title \in Range(Ids(get_all_items(catalog))) THEN "already_exists"
  ELSE "Ok"

(***************************************************************************)
(* The input file: records as csw_xml_to_record builds them                *)
(* (csw_catalog.py 131-237), with the working fields process_records adds. *)
(***************************************************************************)
Box(a, b, c, d) == <<Num(a), Num(b), Num(c), Num(d)>>

Link(url) == [url |-> url, name |-> "layer"]

BaseRecord ==
  [ geonetwork_uri |-> 0, title |-> <<"A", " ", "b">>,
    abstract |-> "", subjects |-> <<>>, links |-> <<>>,
    bbox |-> <<>>, geographic_extent |-> <<>>,
    created |-> 0, date |-> 0, issued |-> 0, modified |-> 0,
    creator |-> "", publisher |-> "", distributor |-> "", license |-> "",
    thematic_lot |-> "EMODnet Bathymetry",
    provider |-> <<[name |-> "EMODnet Bathymetry", roles |-> "provider"]>>,
    start_datetime |-> 0, end_datetime |-> 0,
    assets |-> <<>>, data_assets |-> <<>>, thumbnail_assets |-> <<>> ]

RecordPool ==
  << \* a thumbnail link and a data link
     [BaseRecord EXCEPT !.links = <<Link(U_png), Link(U_zip)>>, !.bbox = Box(0, 0, 1, 1),
                        !.created = 2010, !.modified = 2020],
     \* another title with the same slug
     [BaseRecord EXCEPT !.title = <<"a", " ", "b">>, !.links = <<Link(U_zip)>>,
                        !.bbox = Box(2, 2, 3, 3), !.created = 2015],
     \* another title, two links of one asset type, a license and a creator
     [BaseRecord EXCEPT !.title = <<"c">>, !.links = <<Link(U_zip), Link(U_zip2)>>,
                        !.bbox = Box(2, 2, 3, 3), !.date = 2150,
                        !.license = "CC0-1.0", !.creator = "VLIZ"],
     \* no link at all
     [BaseRecord EXCEPT !.title = <<"c">>],
     \* no link at all either
     [BaseRecord EXCEPT !.title = <<"c">>, !.created = 2015],
     \* an empty title; a map service and a data link
     [BaseRecord EXCEPT !.title = <<>>, !.links = <<Link(U_wms), Link(U_zip)>>],
     \* a thumbnail link and a data link, providers without the EMODnet marker
     [BaseRecord EXCEPT !.title = <<"c">>, !.links = <<Link(U_png), Link(U_zip)>>,
                        !.thematic_lot = "Unknown", !.creator = "VLIZ",
                        !.provider = <<[name |-> "Unknown", roles |-> "provider"]>>],
     \* a record of fetch_records_from_csw_url: no thematic lot, no provider
     [BaseRecord EXCEPT !.links = <<Link(U_html), Link(U_zip)>>, !.thematic_lot = "", !.provider = <<>>],
     \* another thematic lot; a data service and an unclassifiable link; no bbox of its own
     [BaseRecord EXCEPT !.links = <<Link(U_wfs), Link(U_unk)>>, !.thematic_lot = "EMODnet Geology",
                        !.provider = <<[name |-> "EMODnet Geology", roles |-> "provider"]>>,
                        !.issued = 2015, !.modified = 2015],
     \* a provider name that holds no table key, so that the validated links
     \* classify the record; a resource of an IPT and a data service
     [BaseRecord EXCEPT !.title = <<"D">>, !.links = <<Link(U_ipt), Link(U_wfs)>>,
                        !.bbox = Box(2, 2, 3, 3),
                        !.thematic_lot = "Unknown",
                        !.provider = <<[name |-> "Unknown", roles |-> "provider"]>>] >>

\* the answers of the enrichment fetch
XmlAnswers == {"unavailable", "malformed", "ok"}
\* the bounding boxes an enrichment document holds
XmlExtents == {Box(-180 - Overshoot, 0, 1, 1)}

(***************************************************************************)
(* The state of a deployment.                                              *)
(***************************************************************************)
VARIABLES
  all_csw_records,     \* the input file: record identifier -> the record of RecordPool it holds
  disk_catalog,        \* the catalog tree on durable storage
  disk_processed,      \* the progress store on durable storage
  stac_catalog,        \* CSWSTACManager.stac_catalog
  processed_records,   \* CSWSTAConverter.processed_records
  metadata,            \* the record being processed
  probes,              \* the answers of the live probes of its links
  family,              \* position of the family add_or_use_variable_family returned
  collection,          \* position of the collection add_or_use_collection returned
  pc,                  \* the place of process_records the run is at
  i,                   \* the position of the loop in the input file
  skipped,             \* the records the run logged as already processed
  runs,                \* number of runs started
  exception,           \* the exception that ended the last run, "" if none
  bbox_in,             \* finalize_boundaries: the metadata given
  bbox_out,            \* finalize_boundaries: the bbox returned, <<>> before the call
  call_in,             \* a function of Utils called on its own: the argument given
  call_out             \* the values it returned, in the order of the calls

pipeline_vars == <<all_csw_records, disk_catalog, disk_processed, stac_catalog, processed_records,
                   metadata, probes, family, collection, pc, i, skipped, runs, exception>>
bbox_vars == <<bbox_in, bbox_out>>
call_vars == <<call_in, call_out>>
vars == <<pipeline_vars, bbox_vars, call_vars>>

\* the record the input file holds under an identifier
Record(id) == [RecordPool[all_csw_records[id]] EXCEPT !.geonetwork_uri = id]

\* the input files: NumRecords different records of RecordPool, in the order of the pool
AllFiles == {file \in [1..NumRecords -> DOMAIN RecordPool] :
               \A a, b \in 1..NumRecords : a < b => file[a] < file[b]}

\* the files that hold the last record of the pool, the one a later attempt
\* may classify anew, and the files that do not
RetryFiles == {file \in AllFiles : file[NumRecords] = Len(RecordPool)}
InputFiles == AllFiles \ RetryFiles

NoProgress == [x \in {} |-> [in_stac |-> "", reason |-> ""]]
NoBbox == [bbox |-> <<>>, geographic_extent |-> <<>>]
NoCall == call_in = <<>> /\ call_out = <<>>

\* a fresh deployment: an input file, no catalog, no progress store
InitPipeline ==
  /\ disk_catalog = EmptyCatalog
  /\ disk_processed = NoProgress
  /\ stac_catalog = EmptyCatalog
  /\ processed_records = NoProgress
  /\ metadata = BaseRecord
  /\ probes = <<>>
  /\ family = 0
  /\ collection = 0
  /\ pc = "stopped"
  /\ i = 0
  /\ skipped = {}
  /\ runs = 0
  /\ exception = ""

Init ==
  /\ all_csw_records \in InputFiles
  /\ InitPipeline
  /\ bbox_in = NoBbox
  /\ bbox_out = <<>>
  /\ NoCall

\* the run ends: the process exits and only durable storage remains
Stop(exc) ==
  /\ pc' = "stopped"
  /\ exception' = exc
  /\ stac_catalog' = disk_catalog
  /\ processed_records' = disk_processed
  /\ metadata' = BaseRecord
  /\ probes' = <<>>
  /\ family' = 0
  /\ collection' = 0
  /\ i' = 0
  /\ skipped' = {}
  /\ UNCHANGED <<all_csw_records, disk_catalog, disk_processed, runs, bbox_vars, call_vars>>

\* the loop goes on with the next record
Continue ==
  /\ pc' = "loop"
  /\ i' = i + 1
  /\ metadata' = BaseRecord
  /\ probes' = <<>>
  /\ family' = 0
  /\ collection' = 0

\* no record counts as processed
never_processed(processed, id) == FALSE

\* only a record whose entry says successful counts as processed
already_processed_if_successful(processed, id) ==
  IF id \in DOMAIN processed THEN processed[id].in_stac = "successful" ELSE FALSE

\* id in self.processed_records_df['geonetwork_uri'].values (csw_to_stac.py 63)
already_processed(processed, id) == id \in DOMAIN processed

\* CSWSTAConverter.__init__ and the head of process_records
\* (csw_to_stac.py 31-57): the catalog and the progress store are read
StartRun ==
  /\ pc = "stopped"
  /\ runs < MaxRuns
  /\ runs' = runs + 1
  /\ stac_catalog' = disk_catalog
  /\ processed_records' = disk_processed
  /\ pc' = "loop"
  /\ i' = 1
  /\ exception' = ""
  /\ UNCHANGED <<all_csw_records, disk_catalog, disk_processed, metadata, probes, family,
                 collection, skipped, bbox_vars, call_vars>>

\* the loop is over (csw_to_stac.py 104-108)
FinishRun ==
  /\ pc = "loop"
  /\ i > NumRecords
  /\ Stop("")

\* a record with a progress entry is skipped (csw_to_stac.py 63-65)
SkipRecord ==
  /\ pc = "loop"
  /\ i <= NumRecords
  /\ already_processed(processed_records, i)
  /\ i' = i + 1
  /\ skipped' = skipped \cup {i}
  /\ UNCHANGED <<all_csw_records, disk_catalog, disk_processed, stac_catalog, processed_records,
                 metadata, probes, family, collection, pc, runs, exception, bbox_vars, call_vars>>

\* the working fields are reset and the links are probed (csw_to_stac.py 67-76)
FindAssets ==
  /\ pc = "loop"
  /\ i <= NumRecords
  /\ ~already_processed(processed_records, i)
  /\ LET csw_record == Record(i)
     IN \E answers \in [DOMAIN csw_record.links -> {"none", "ok", "fail", "no_header"}] :
          /\ \A n \in DOMAIN answers :
                answers[n] \in ProbeOutcomes(get_media_type(csw_record.links[n].url).asset_type)
          /\ IF find_assets_raises(csw_record, answers)
             THEN Stop("KeyError")
             ELSE /\ metadata' = find_assets(csw_record, answers, Len(csw_record.links))
                  /\ probes' = answers
                  /\ pc' = "found"
                  /\ UNCHANGED <<all_csw_records, disk_catalog, disk_processed, stac_catalog,
                                 processed_records, family, collection, i, skipped, runs,
                                 exception, bbox_vars, call_vars>>

\* the enrichment document is fetched (csw_to_stac.py 78-80)
SupplementMetadata ==
  /\ pc = "found"
  /\ \E xml \in XmlAnswers, xml_extent \in XmlExtents :
       IF look_up_thematic_lot_raises(metadata)
       THEN Stop("AttributeError")
       ELSE IF get_xml_root_namespaces_raises(xml)
       THEN Stop("KeyError")
       ELSE /\ metadata' = supplement_metadata(metadata, xml, xml_extent)
            /\ pc' = "supplemented"
            /\ UNCHANGED <<all_csw_records, disk_catalog, disk_processed, stac_catalog,
                           processed_records, probes, family, collection, i, skipped, runs,
                           exception, bbox_vars, call_vars>>

\* check_stac_ok, with the update_progress and the save of a rejection
\* (csw_to_stac.py 82-86, 148-172)
CheckStacOk ==
  /\ pc = "supplemented"
  /\ LET reason == check_stac_ok(metadata, stac_catalog)
     IN IF reason = "Ok"
        THEN /\ pc' = "checked"
             /\ UNCHANGED <<processed_records, disk_processed, metadata, probes, family,
                            collection, i>>
        ELSE /\ processed_records' = update_progress(processed_records, metadata, "failed", reason)
             /\ disk_processed' = processed_records'
             /\ Continue
  /\ UNCHANGED <<all_csw_records, disk_catalog, stac_catalog, skipped, runs, exception, bbox_vars, call_vars>>

\* add_to_stac, first part (stac.py 48-52)
AddOrUseVariableFamily ==
  /\ pc = "checked"
  /\ LET r == add_or_use_variable_family(stac_catalog, lookup_variable_family(metadata))
     IN /\ stac_catalog' = r.catalog
        /\ disk_catalog' = IF r.catalog # stac_catalog THEN r.catalog ELSE disk_catalog
        /\ family' = r.family
  /\ pc' = "family"
  /\ UNCHANGED <<all_csw_records, disk_processed, processed_records, metadata, probes,
                 collection, i, skipped, runs, exception, bbox_vars, call_vars>>

\* add_to_stac, second part (stac.py 54)
AddOrUseCollection ==
  /\ pc = "family"
  /\ LET variable_family == stac_catalog.children[family]
         current_collection == lookup_collection(metadata)
     IN IF add_or_use_collection_raises(variable_family, current_collection, metadata)
        THEN Stop("UnboundLocalError")
        ELSE LET r == add_or_use_collection(variable_family, current_collection, metadata)
                 catalog == [stac_catalog EXCEPT !.children[family] = r.family]
             IN /\ stac_catalog' = catalog
                /\ disk_catalog' = IF catalog # stac_catalog THEN catalog ELSE disk_catalog
                /\ collection' = r.collection
                /\ metadata' = r.metadata
                /\ pc' = "collection"
                /\ UNCHANGED <<all_csw_records, disk_processed, processed_records, probes,
                               family, i, skipped, runs, exception, bbox_vars, call_vars>>

\* add_item returning without self.stac_catalog.save
AddItem_unsaved ==
  /\ pc = "collection"
  /\ LET r == add_item(metadata, stac_catalog.children[family].children[collection])
         catalog == [stac_catalog EXCEPT !.children[family].children[collection] = r.collection]
     IN /\ stac_catalog' = catalog
        /\ pc' = IF r.added THEN "added" ELSE "rejected"
  /\ UNCHANGED <<all_csw_records, disk_catalog, disk_processed, processed_records, metadata, probes,
                 family, collection, i, skipped, runs, exception, bbox_vars, call_vars>>

\* add_to_stac, third part (stac.py 56-60)
AddItem ==
  /\ pc = "collection"
  /\ LET r == add_item(metadata, stac_catalog.children[family].children[collection])
         catalog == [stac_catalog EXCEPT !.children[family].children[collection] = r.collection]
     IN /\ stac_catalog' = catalog
        /\ disk_catalog' = IF r.added THEN catalog ELSE disk_catalog
        /\ pc' = IF r.added THEN "added" ELSE "rejected"
  /\ UNCHANGED <<all_csw_records, disk_processed, processed_records, metadata, probes, family,
                 collection, i, skipped, runs, exception, bbox_vars, call_vars>>

\* the outcome of add_to_stac is recorded (csw_to_stac.py 91-98)
RecordOutcome ==
  /\ pc \in {"added", "rejected"}
  /\ processed_records' = IF pc = "added"
                          THEN update_progress(processed_records, metadata, "successful", "Ok")
                          ELSE update_progress(processed_records, metadata, "failed", "failed_to_add")
  /\ disk_processed' = processed_records'
  /\ Continue
  /\ UNCHANGED <<all_csw_records, disk_catalog, stac_catalog, skipped, runs, exception, bbox_vars, call_vars>>

\* the process is killed between two steps
Crash ==
  /\ pc # "stopped"
  /\ Stop("")

Next ==
  \/ StartRun
  \/ FinishRun
  \/ SkipRecord
  \/ FindAssets
  \/ SupplementMetadata
  \/ CheckStacOk
  \/ AddOrUseVariableFamily
  \/ AddOrUseCollection
  \/ AddItem
  \/ RecordOutcome
  \/ Crash

Spec == Init /\ [][Next]_vars

\* the same runs on the input files that hold the last record of the pool
InitRetry ==
  /\ all_csw_records \in RetryFiles
  /\ InitPipeline
  /\ bbox_in = NoBbox
  /\ bbox_out = <<>>
  /\ NoCall

SpecRetry == InitRetry /\ [][Next]_vars

(***************************************************************************)
(* finalize_boundaries on its own: a call on a metadata record whose bbox  *)
(* or geographic extent holds four coordinates, or the two of a lower      *)
(* corner alone, or none; each coordinate a number inside a range, on a    *)
(* bound of it or beyond one, None, float NaN, the string 'nan' or a word. *)
(***************************************************************************)
Coordinates ==
  {Num(v) : v \in {-180 - Overshoot, -180, -90 - Overshoot, -90, 0, 90, 90 + Overshoot, 180, 180 + Overshoot}}
    \cup {[kind |-> k, val |-> 0] : k \in {"none", "nan", "nanstr", "str"}}

\* the lengths of a bbox: absent, a lower corner alone, both corners
BboxLengths == {0, 2, 4}

InitBbox ==
  /\ all_csw_records = [id \in 1..NumRecords |-> 1]
  /\ InitPipeline
  /\ \E n \in BboxLengths : \E bbox \in [1..n -> Coordinates] :
        \/ bbox_in = [bbox |-> bbox, geographic_extent |-> <<>>]
        \/ bbox_in = [bbox |-> <<>>, geographic_extent |-> bbox]
  /\ bbox_out = <<>>
  /\ NoCall

FinalizeBoundaries ==
  /\ bbox_out = <<>>
  /\ exception = ""
  /\ IF finalize_boundaries_raises(bbox_in)
     THEN /\ exception' = "IndexError"
          /\ UNCHANGED bbox_out
     ELSE /\ bbox_out' = finalize_boundaries(bbox_in)
          /\ UNCHANGED exception
  /\ UNCHANGED <<all_csw_records, disk_catalog, disk_processed, stac_catalog, processed_records,
                 metadata, probes, family, collection, pc, i, skipped, runs, bbox_in, call_vars>>

NextBbox == FinalizeBoundaries

SpecBbox == InitBbox /\ [][NextBbox]_vars

(***************************************************************************)
(* custom_slugify on its own: a call on a text, then a call on the text    *)
(* returned.  The texts hold letters of both cases, a digit, whitespace,   *)
(* a hyphen, a dot, other punctuation, the separator and a capital letter  *)
(* whose lower case is two characters.                                     *)
(***************************************************************************)
MaxTextLen == 3

TextChars == {"A", "b", "1", " ", "-", ".", "!", "_", "U+0130"}

Texts == UNION {[1..n -> TextChars] : n \in 0..MaxTextLen}

IdlePipeline ==
  /\ all_csw_records = [id \in 1..NumRecords |-> 1]
  /\ InitPipeline
  /\ bbox_in = NoBbox
  /\ bbox_out = <<>>

InitSlugify ==
  /\ IdlePipeline
  /\ call_in \in Texts
  /\ call_out = <<>>

CustomSlugify ==
  /\ Len(call_out) < 2
  /\ call_out' = Append(call_out, custom_slugify(IF call_out = <<>> THEN call_in ELSE call_out[1]))
  /\ UNCHANGED <<pipeline_vars, bbox_vars, call_in>>

NextSlugify == CustomSlugify

SpecSlugify == InitSlugify /\ [][NextSlugify]_vars

(***************************************************************************)
(* Date normalization on its own: MetadataUpdater.fill_dates_and_format /  *)
(* format_datetimes (add_metadata.py 127-173) and                          *)
(* Utils.format_datetime_to_iso8601 (utils.py 369-401).                    *)
(* A date string is a record [form, day, hour, offset, frac]:              *)
(*   form   "year" (4 characters), "month" (7), "date" (10), "naive" (a    *)
(*          timestamp without offset), "aware" (a timestamp with offset);  *)
(*   day    the number of the day, for a year or a month its first day;    *)
(*   hour   the hour of the day;  offset  the UTC offset in hours;         *)
(*   frac   the timestamp carries a fraction of a second.                  *)
(* A datetime is [day, hour, tzinfo], tzinfo <<>> when it is naive and     *)
(* <<offset>> when it is aware.  The result is [day, hour, frac] in UTC.   *)
(* The time zone of the host is an input of datetime.astimezone on a       *)
(* naive datetime.                                                         *)
(***************************************************************************)
Days == {1, 2, 3}
Hours == {0, 1, 10, 23}
Offsets == {-2, 0, 2}
HostOffsets == {0, 1}

DateStrings ==
  {[form |-> f, day |-> d, hour |-> 0, offset |-> 0, frac |-> FALSE] : f \in {"year", "month", "date"}, d \in Days}
  \cup {[form |-> "naive", day |-> d, hour |-> h, offset |-> 0, frac |-> fr] :
          d \in Days, h \in Hours, fr \in BOOLEAN}
  \cup {[form |-> "aware", day |-> d, hour |-> h, offset |-> o, frac |-> fr] :
          d \in Days, h \in Hours, o \in Offsets, fr \in BOOLEAN}

\* datetime.astimezone(timezone.utc): a naive datetime is taken to be in the
\* time zone of the host
astimezone_utc(dt, host) ==
  LET hours == dt.day * 24 + dt.hour - (IF dt.tzinfo = <<>> THEN host ELSE dt.tzinfo[1])
  IN [day |-> hours \div 24, hour |-> hours % 24]

\* datetime.fromisoformat / dateutil parser.parse on a timestamp
parse(datetime_str) ==
  [day |-> datetime_str.day, hour |-> datetime_str.hour,
   tzinfo |-> IF datetime_str.form = "aware" THEN <<datetime_str.offset>> ELSE <<>>]

\* MetadataUpdater.format_datetimes: value.split('.')[0] cuts the fraction
\* and whatever follows it, the offset included
format_datetimes(value, host) ==
  LET cut == IF value.frac THEN [value EXCEPT !.form = "naive", !.offset = 0, !.frac = FALSE] ELSE value
      dt_obj_utc == astimezone_utc(parse(cut), host)
  IN [day |-> dt_obj_utc.day, hour |-> dt_obj_utc.hour, frac |-> FALSE]

\* MetadataUpdater.fill_dates_and_format on one key of the temporal extent
fill_dates_and_format(value, host) ==
  format_datetimes(IF value.form \in {"year", "month", "date"} THEN [value EXCEPT !.form = "naive"] ELSE value,
                   host)

\* Utils.format_datetime_to_iso8601: 'Z' is appended to a string of 4, 7,
\* 10, 16 or 19 characters; a naive datetime is marked as UTC
format_datetime_to_iso8601(datetime_str) ==
  LET expanded == IF datetime_str.form \in {"year", "month", "date"}
                       \/ (datetime_str.form = "naive" /\ ~datetime_str.frac)
                  THEN [datetime_str EXCEPT !.form = "aware", !.offset = 0]
                  ELSE datetime_str
      parsed == parse(expanded)
      dt == astimezone_utc(IF parsed.tzinfo = <<>> THEN [parsed EXCEPT !.tzinfo = <<0>>] ELSE parsed, 0)
  IN [day |-> dt.day, hour |-> dt.hour, frac |-> datetime_str.frac]

InitDates ==
  /\ IdlePipeline
  /\ call_in \in [datetime_str : DateStrings, host : HostOffsets]
  /\ call_out = <<>>

FillDatesAndFormat ==
  /\ call_out = <<>>
  /\ call_out' = <<[by |-> "fill_dates_and_format",
                    value |-> fill_dates_and_format(call_in.datetime_str, call_in.host)]>>
  /\ UNCHANGED <<pipeline_vars, bbox_vars, call_in>>

FormatDatetimeToIso8601 ==
  /\ call_out = <<>>
  /\ call_out' = <<[by |-> "format_datetime_to_iso8601",
                    value |-> format_datetime_to_iso8601(call_in.datetime_str)]>>
  /\ UNCHANGED <<pipeline_vars, bbox_vars, call_in>>

NextDates == FillDatesAndFormat \/ FormatDatetimeToIso8601

SpecDates == InitDates /\ [][NextDates]_vars

(***************************************************************************)
(* get_media_type on its own: called on each link of a list, in order.     *)
(***************************************************************************)
MaxLinks == 2

Urls == {U_png, U_zip, U_zip2, U_html, U_unk, U_wfs, U_wms, U_ipt, U_toolbox, U_opendap, U_mda,
         U_xml, U_csw, U_wms_request, U_dwca, U_toolbox_wfs, U_mda_direct, U_wfs_zip, U_xml_json}

InitMediaType ==
  /\ IdlePipeline
  /\ call_in \in UNION {[1..n -> Urls] : n \in 1..MaxLinks}
  /\ call_out = <<>>

GetMediaType ==
  /\ Len(call_out) < Len(call_in)
  /\ call_out' = Append(call_out, get_media_type(call_in[Len(call_out) + 1]))
  /\ UNCHANGED <<pipeline_vars, bbox_vars, call_in>>

NextMediaType == GetMediaType

SpecMediaType == InitMediaType /\ [][NextMediaType]_vars

(***************************************************************************)
(* RestoStacManager.post_data (stac_to_resto.py 176-194) on its own: one   *)
(* call by one of the post_* methods.  call_out is the list of what the    *)
(* call has done so far: the answer of each POST ("200", "409", "401", or  *)
(* "post raises"), the outcome of each get_initial_access_token ("token"   *)
(* or "token raises"), of update_data ("put", "put raises"), and           *)
(* "RecursionError" when the interpreter refuses one more nested call.     *)
(***************************************************************************)
\* the number of nested calls of post_data the interpreter allows
RecursionLimit == 3

Callers == {"post_catalog", "post_to_child_catalog", "post_collection",
            "post_collection_to_child_catalog", "post_item"}

\* number of events of a list that are in a set
RECURSIVE Count(_, _)
Count(events, kinds) ==
  IF events = <<>> THEN 0
  ELSE (IF Head(events) \in kinds THEN 1 ELSE 0) + Count(Tail(events), kinds)

\* the calls of requests.post made so far, one per nested call of post_data
Posts(events) == Count(events, {"200", "409", "401", "post raises"})
\* the calls of get_initial_access_token made so far
Refreshes(events) == Count(events, {"token", "token raises"})

\* the last thing done, "" before the first
Last(events) == IF events = <<>> THEN "" ELSE events[Len(events)]

\* post_data has returned to its caller
Returned(update, events) ==
  /\ events # <<>>
  /\ \/ Last(events) \in {"200", "post raises", "token raises", "put", "put raises", "RecursionError"}
     \/ Last(events) = "409" /\ ~update

InitPostData ==
  /\ IdlePipeline
  /\ call_in \in [caller : Callers, update : BOOLEAN]
  /\ call_out = <<>>

\* requests.post (lines 178-182), in the first call or in a nested one
Post ==
  /\ Last(call_out) \in {"", "token"}
  /\ IF Posts(call_out) >= RecursionLimit
     THEN call_out' = Append(call_out, "RecursionError")
     ELSE \E answer \in {"200", "409", "401", "post raises"} : call_out' = Append(call_out, answer)
  /\ UNCHANGED <<pipeline_vars, bbox_vars, call_in>>

\* update_data (lines 183-184, 196-202)
UpdateData ==
  /\ call_out # <<>>
  /\ Last(call_out) = "409"
  /\ call_in.update
  /\ \E outcome \in {"put", "put raises"} : call_out' = Append(call_out, outcome)
  /\ UNCHANGED <<pipeline_vars, bbox_vars, call_in>>

\* get_initial_access_token (lines 185-187, 40-54)
GetInitialAccessToken ==
  /\ call_out # <<>>
  /\ Last(call_out) = "401"
  /\ \E outcome \in {"token", "token raises"} : call_out' = Append(call_out, outcome)
  /\ UNCHANGED <<pipeline_vars, bbox_vars, call_in>>

NextPostData == Post \/ UpdateData \/ GetInitialAccessToken

SpecPostData == InitPostData /\ [][NextPostData]_vars

(***************************************************************************)
(* The three classification lookups as functions of a record: call_in is   *)
(* the record, call_out the labels returned by lookup_collection,          *)
(* lookup_thematic_lot and lookup_variable_family, in that order.          *)
(***************************************************************************)
LookupProviders ==
  {<<>>, <<[name |-> "VLIZ", roles |-> "creator"]>>,
   <<[name |-> "EMODnet Geology", roles |-> "provider"]>>,
   <<[name |-> "VLIZ", roles |-> "creator"], [name |-> "geology", roles |-> "provider"]>>}
LookupAssets == {<<>>, <<U_zip>>, <<U_wms>>, <<U_zip, U_ipt>>, <<U_ipt, U_wms>>}
LookupAbstracts == {"", "chemistry", "geology and bathymetry"}
LookupSubjects == {<<>>, <<"physics">>, <<"Unknown", "geology">>}
LookupTitles == {<<>>, Chars("Unknown"), Chars("Salinity")}

InitLookup ==
  /\ IdlePipeline
  /\ call_in \in [provider : LookupProviders, assets : LookupAssets, abstract : LookupAbstracts,
                  subjects : LookupSubjects, title : LookupTitles]
  /\ call_out = <<>>

LookupCollection ==
  /\ Len(call_out) = 0
  /\ call_out' = Append(call_out, lookup_collection(call_in))
  /\ UNCHANGED <<pipeline_vars, bbox_vars, call_in>>

LookupThematicLot ==
  /\ Len(call_out) = 1
  /\ call_out' = Append(call_out, lookup_thematic_lot(call_in))
  /\ UNCHANGED <<pipeline_vars, bbox_vars, call_in>>

LookupVariableFamily ==
  /\ Len(call_out) = 2
  /\ call_out' = Append(call_out, lookup_variable_family(call_in))
  /\ UNCHANGED <<pipeline_vars, bbox_vars, call_in>>

NextLookup == LookupCollection \/ LookupThematicLot \/ LookupVariableFamily

SpecLookup == InitLookup /\ [][NextLookup]_vars

(***************************************************************************)
(* Utils.update_datetimes as a function of the date fields of a record:    *)
(* call_in is the record, call_out the records returned.  A date is a      *)
(* year, 0 when the field is absent or empty.                              *)
(***************************************************************************)
DateYears == {0, 1960, 2000, 2150}
PresetYears == {<<0, 0>>, <<1990, 2010>>}

InitDatetimes ==
  /\ IdlePipeline
  /\ \E preset \in PresetYears :
       call_in \in [created : DateYears, date : DateYears, issued : DateYears, modified : DateYears,
                    start_datetime : {preset[1]}, end_datetime : {preset[2]}]
  /\ call_out = <<>>

UpdateDatetimes ==
  /\ call_out = <<>>
  /\ call_out' = <<update_datetimes(call_in)>>
  /\ UNCHANGED <<pipeline_vars, bbox_vars, call_in>>

NextDatetimes == UpdateDatetimes

SpecDatetimes == InitDatetimes /\ [][NextDatetimes]_vars

(***************************************************************************)
(* Properties.                                                             *)
(***************************************************************************)
\* the collection add_or_use_collection returned
CurrentCollection == stac_catalog.children[family].children[collection]

\* C1: add_item on a record whose title normalizes to the identifier of an
\* item the collection already holds rejects the record, leaves the items
\* of the collection as they are and saves nothing.
C1_DuplicateSlugRejected ==
  [][ ( /\ pc = "collection"
        /\ pc' \in {"added", "rejected"}
        /\ custom_slugify(metadata.title) \in Range(Ids(CurrentCollection.items)) )
      => /\ pc' = "rejected"
         /\ stac_catalog'.children[family].children[collection].items = CurrentCollection.items
         /\ Len(stac_catalog'.children[family].children[collection].items) = Len(CurrentCollection.items)
         /\ disk_catalog' = disk_catalog ]_vars

\* a record was rejected by add_item for an item of another title and the same identifier
C1_Witness ==
  /\ pc = "rejected"
  /\ \E n \in DOMAIN CurrentCollection.items :
        /\ CurrentCollection.items[n].id = custom_slugify(metadata.title)
        /\ CurrentCollection.items[n].title # metadata.title

\* C2: a record whose progress entry says successful is skipped by a later
\* run: the loop moves on with neither asset discovery nor enrichment, and
\* neither the catalog nor the progress store changes.
C2_SuccessfulSkipped ==
  [][ ( /\ pc = "loop"
        /\ i <= NumRecords
        /\ i \in DOMAIN processed_records
        /\ processed_records[i].in_stac = "successful"
        /\ pc' # "stopped" )
      => /\ pc' = "loop"
         /\ i' = i + 1
         /\ i \in skipped'
         /\ UNCHANGED <<stac_catalog, disk_catalog, processed_records, disk_processed,
                        metadata, probes>> ]_vars

\* a later run skipped a record an earlier run added
C2_Witness ==
  /\ runs > 1
  /\ \E id \in skipped :
        /\ processed_records[id].in_stac = "successful"
        /\ custom_slugify(Record(id).title) \in Range(Ids(get_all_items(stac_catalog)))

\* C3: no two children of one parent have the same identifier: families in
\* the root, collections in a family, items in a collection.
UniqueIds(nodes) == \A a, b \in DOMAIN nodes : nodes[a].id = nodes[b].id => a = b

SiblingsUnique(catalog) ==
  /\ UniqueIds(catalog.children)
  /\ \A f \in DOMAIN catalog.children :
        /\ UniqueIds(catalog.children[f].children)
        /\ \A c \in DOMAIN catalog.children[f].children :
              UniqueIds(catalog.children[f].children[c].items)

C3_SiblingIdsUnique == SiblingsUnique(stac_catalog) /\ SiblingsUnique(disk_catalog)

\* a family and a collection were used a second time: a collection holds two items
C3_Witness ==
  \E f \in DOMAIN disk_catalog.children : \E c \in DOMAIN disk_catalog.children[f].children :
     Len(disk_catalog.children[f].children[c].items) >= 2

\* C4: the extent of a collection that holds items is the union of theirs:
\* each side of its box is the outermost of the items' sides, its time range
\* runs from their earliest start to their latest end.
Lowest(side, sides) == side \in sides /\ \A s \in sides : side <= s
Highest(side, sides) == side \in sides /\ \A s \in sides : side >= s

ExtentIsUnion(coll) ==
  LET items == coll.items
      Sides(k) == {items[n].bbox[k] : n \in DOMAIN items}
  IN items # <<>> =>
       /\ Lowest(coll.extent.bbox[1], Sides(1))
       /\ Lowest(coll.extent.bbox[2], Sides(2))
       /\ Highest(coll.extent.bbox[3], Sides(3))
       /\ Highest(coll.extent.bbox[4], Sides(4))
       /\ Lowest(coll.extent.interval[1], {items[n].start_datetime : n \in DOMAIN items})
       /\ Highest(coll.extent.interval[2], {items[n].end_datetime : n \in DOMAIN items})

C4_ExtentIsUnionOfItems ==
  \A catalog \in {stac_catalog, disk_catalog} :
    \A f \in DOMAIN catalog.children : \A c \in DOMAIN catalog.children[f].children :
       ExtentIsUnion(catalog.children[f].children[c])

\* items of boxes [0,0,1,1] and [2,2,3,3] give their collection the box [0,0,3,3]
C4_Witness ==
  \E f \in DOMAIN disk_catalog.children : \E c \in DOMAIN disk_catalog.children[f].children :
     LET coll == disk_catalog.children[f].children[c]
     IN /\ \E n \in DOMAIN coll.items : coll.items[n].bbox = <<0, 0, 1, 1>>
        /\ \E n \in DOMAIN coll.items : coll.items[n].bbox = <<2, 2, 3, 3>>
        /\ coll.extent.bbox = <<0, 0, 3, 3>>

ThumbnailAndData ==
  LET links == Record(i).links
  IN /\ Len(links) = 2
     /\ get_media_type(links[1].url).role = "thumbnail"
     /\ get_media_type(links[2].url).role = "data"
     /\ probes = <<"ok", "ok">>

\* its title is not empty and is no identifier of the catalog
NewTitle ==
  LET ids == Range(Ids(get_all_items(stac_catalog)))
  IN /\ metadata.title # <<>>
     /\ metadata.title \notin ids
     /\ custom_slugify(metadata.title) \notin ids

\* C6 as stated: a record with one thumbnail link and one data link, both
\* validated, and a non-empty title not yet in the catalog is accepted: no
\* step rejects it or ends in an exception, and the item add_item makes of
\* it holds both assets in their roles.
C6_StatedAccepted ==
  [][ (pc \in {"supplemented", "checked", "family", "collection"}
         /\ ThumbnailAndData /\ NewTitle)
      => /\ exception' = ""
         /\ pc' \notin {"loop", "rejected"}
         /\ pc' = "added" =>
              LET items == stac_catalog'.children[family].children[collection].items
                  item == items[Len(items)]
              IN /\ item.id = custom_slugify(metadata.title)
                 /\ {"png", "zip"} \subseteq DOMAIN item.assets
                 /\ item.assets["png"].href = Record(i).links[1].url
                 /\ item.assets["png"].roles = "thumbnail"
                 /\ item.assets["zip"].href = Record(i).links[2].url
                 /\ item.assets["zip"].roles = "data" ]_vars

\* such a record of an EMODnet provider was added with both assets
C6_Witness ==
  /\ pc = "added"
  /\ ThumbnailAndData
  /\ LET item == CurrentCollection.items[Len(CurrentCollection.items)]
     IN /\ item.assets["png"].roles = "thumbnail"
        /\ item.assets["zip"].roles = "data"

\* the URL sort_asset appends for a link of an asset type
AssetOf(link_item, asset_type) ==
  CASE asset_type = "wms" -> construct_wms_request(link_item.url)
    [] asset_type = "iptresource" -> convert_ipt_to_dwca(link_item.url)
    [] asset_type = "eurobistoolbox" -> convert_eurobis_toolbox_to_wfs(link_item.url)
    [] asset_type = "mdazip" -> test_mda(link_item.url)
    [] OTHER -> link_item.url

\* the URL comes from a link of the record that was classified and, unless
\* it is a WFS link, answered its probe
ClassifiedAndValidated(url) ==
  \E n \in DOMAIN Record(i).links :
     LET link_item == Record(i).links[n]
         media == get_media_type(link_item.url)
     IN /\ media.asset_type # None
        /\ media.mediatype # None
        /\ url = AssetOf(link_item, media.asset_type)
        /\ media.asset_type = "wfs" \/ probes[n] = "ok"

C8_StatedRejectionRecorded ==
  [][ (pc \in {"supplemented", "rejected"} /\ pc' = "loop")
      => /\ i' = i + 1
         /\ i \in DOMAIN processed_records'
         /\ processed_records'[i].in_stac = "failed"
         /\ processed_records'[i].reason =
              (IF pc = "rejected" THEN "failed_to_add" ELSE check_stac_ok(metadata, stac_catalog))
         /\ disk_processed' = processed_records' ]_vars

\* C9 as stated: no exception leaves the processing of a record and ends
\* the run.
C9_StatedNoException == exception = ""

\* C10: finalize_boundaries on four numbers returns each number inside its
\* range as it is and each number outside it as the bound it lies beyond.
Nearest(v, min_val, max_val) == IF v < min_val THEN min_val ELSE IF v > max_val THEN max_val ELSE v

GivenBbox == IF bbox_in.bbox # <<>> THEN bbox_in.bbox ELSE bbox_in.geographic_extent

C10_ClampedToNearestBound ==
  (bbox_out # <<>> /\ Len(GivenBbox) = 4 /\ \A k \in 1..4 : GivenBbox[k].kind = "num")
  => /\ bbox_out[1] = Nearest(GivenBbox[1].val, -180, 180)
     /\ bbox_out[2] = Nearest(GivenBbox[2].val, -90, 90)
     /\ bbox_out[3] = Nearest(GivenBbox[3].val, -180, 180)
     /\ bbox_out[4] = Nearest(GivenBbox[4].val, -90, 90)

\* a longitude below its range and a latitude above its range are clamped,
\* the two coordinates in range are returned as they are
C10_Witness ==
  /\ bbox_in.bbox = <<Num(-180 - Overshoot), Num(-90), Num(0), Num(90 + Overshoot)>>
  /\ bbox_out = <<-180, -90, 0, 90>>

\* finalize_boundaries has returned or raised
BboxCalled == bbox_out # <<>> \/ exception # ""

\* C11: finalize_boundaries on a bbox holding None, float NaN or the string
\* 'nan' in any position returns the whole world, whatever the other
\* coordinates and whatever the number of coordinates.
C11_NaNLikeGivesWorld ==
  (BboxCalled /\ \E k \in DOMAIN GivenBbox : GivenBbox[k].kind \in {"none", "nan", "nanstr"})
  => bbox_out = <<-180, -90, 180, 90>>

\* a bbox of three numbers out of range and the string 'nan' gave the whole world
C11_Witness ==
  /\ bbox_in.bbox = <<Num(180 + Overshoot), Num(0), Num(-180 - Overshoot), [kind |-> "nanstr", val |-> 0]>>
  /\ bbox_out = <<-180, -90, 180, 90>>

\* C12 as stated: finalize_boundaries on a bbox holding a string that is not
\* a number, or fewer than four coordinates, returns the whole world.
C12_StatedDiscarded ==
  (BboxCalled /\ GivenBbox # <<>>
     /\ (Len(GivenBbox) < 4 \/ \E k \in DOMAIN GivenBbox : GivenBbox[k].kind = "str"))
  => bbox_out = <<-180, -90, 180, 90>>

\* a lower corner alone made finalize_boundaries raise
C12_Witness ==
  /\ bbox_in.bbox = <<Num(0), Num(0)>>
  /\ exception = "IndexError"

\* C13 as stated: custom_slugify applied to its own result returns that
\* result, for every text.
C13_StatedIdempotent == Len(call_out) = 2 => call_out[2] = call_out[1]

\* the capital letter whose lower case is two characters: the second call
\* dropped the combining character the first call produced
C13_Witness ==
  /\ call_in = <<"U+0130">>
  /\ call_out = << <<"i", "U+0307">>, <<"i">> >>

\* the second half of C13 holds: the result holds no capital letter, no
\* whitespace, no hyphen and no punctuation other than the dot and the
\* separator, and it is its own slug unless the text held the capital
\* letter whose lower case is two characters
C13_ResultIsNormalized ==
  call_out # <<>> =>
    /\ \A k \in DOMAIN call_out[1] :
          call_out[1][k] \in Range(LowerOf) \cup DigitChars \cup {"_", ".", "U+0307"}
    /\ (Len(call_out) = 2 /\ "U+0130" \notin Range(call_in)) => call_out[2] = call_out[1]

\* the instant a date string names, in UTC: the first instant of a year, a
\* month or a date, the timestamp less its offset
InstantUTC(datetime_str) ==
  LET hours == datetime_str.day * 24 + datetime_str.hour - datetime_str.offset
  IN [day |-> hours \div 24, hour |-> hours % 24, frac |-> FALSE]

\* C14 as stated: date normalization maps a year, a month or a date to its
\* first instant at 00:00:00 UTC and a timestamp with an offset to the same
\* instant in UTC, in the form YYYY-MM-DDTHH:MM:SSZ.
C14_StatedNormalized ==
  (call_out # <<>> /\ call_in.datetime_str.form \in {"year", "month", "date", "aware"})
  => call_out[1].value = InstantUTC(call_in.datetime_str)

\* on a host one hour ahead of UTC fill_dates_and_format moved a year to the
\* last hour of the day before
C14_Witness ==
  /\ call_in.datetime_str = [form |-> "year", day |-> 2, hour |-> 0, offset |-> 0, frac |-> FALSE]
  /\ call_in.host = 1
  /\ call_out = <<[by |-> "fill_dates_and_format", value |-> [day |-> 1, hour |-> 23, frac |-> FALSE]]>>

\* the two examples of C14 hold for both functions on a host in UTC, and
\* format_datetime_to_iso8601 gives the instant named whatever the host
C14_ExamplesHold ==
  call_out # <<>> =>
    /\ (call_in.host = 0 /\ ~call_in.datetime_str.frac
          /\ call_in.datetime_str.form \in {"year", "month", "date", "aware"})
        => call_out[1].value = InstantUTC(call_in.datetime_str)
    /\ (call_out[1].by = "format_datetime_to_iso8601"
          /\ call_in.datetime_str.form \in {"year", "month", "date", "aware"})
        => /\ call_out[1].value.day = InstantUTC(call_in.datetime_str).day
           /\ call_out[1].value.hour = InstantUTC(call_in.datetime_str).hour

\* the row is the first of the table, in its order, whose rule the URL meets
IsFirstMet(table, r, met) == table[r][1] \in met /\ \A q \in 1..(r - 1) : table[q][1] \notin met

\* the result is what the row of the table assigns
IsResultOf(result, row) ==
  result = [asset_type |-> row[2], title |-> row[3], mediatype |-> row[4], role |-> row[5]]

AttemptEnds == pc \in {"supplemented", "added", "rejected"} /\ pc' = "loop"

\* C16 as stated: the attempt on a record leaves a progress entry for it,
\* and an entry once written is kept, in memory and on durable storage.
C16_StatedLifecycle ==
  [][ /\ AttemptEnds => i \in DOMAIN disk_processed'
      /\ \A id \in DOMAIN disk_processed :
            id \in DOMAIN disk_processed' /\ disk_processed'[id] = disk_processed[id] ]_vars

\* an attempt on a record has ended, the loop has gone on and the record
\* has no progress entry
C16_Witness ==
  /\ pc = "loop"
  /\ i > 1
  /\ (i - 1) \notin skipped
  /\ (i - 1) \notin DOMAIN disk_processed

\* the rest of C16 holds: an entry of the progress store is never deleted
\* and never changed, and a step writes at most one entry
C16_EntriesKept ==
  [][ /\ \A id \in DOMAIN disk_processed :
            id \in DOMAIN disk_processed' /\ disk_processed'[id] = disk_processed[id]
      /\ Cardinality(DOMAIN disk_processed' \ DOMAIN disk_processed) <= 1
      /\ (DOMAIN disk_processed' # DOMAIN disk_processed) => AttemptEnds ]_vars

\* C17 as stated: one call of post_data refreshes the access token at most
\* once and sends at most the POST and one retry of it.
C17_StatedOneRefresh == Refreshes(call_out) <= 1 /\ Posts(call_out) <= 2

\* the target answered 401 to the POST and to its retry, and the call
\* refreshed the token a second time
C17_Witness == call_out = <<"401", "token", "401", "token">>

\* the rest of C17: a 401 is followed by a refresh and a retry of the same
\* call, and the call returns once the target answers anything else or the
\* interpreter refuses one more nested call
C17_RefreshThenRetry ==
  /\ \A k \in DOMAIN call_out : (call_out[k] = "401" /\ k < Len(call_out))
        => call_out[k + 1] \in {"token", "token raises"}
  /\ \A k \in DOMAIN call_out : (call_out[k] = "token" /\ k < Len(call_out))
        => call_out[k + 1] \in {"200", "409", "401", "post raises", "RecursionError"}
  /\ Posts(call_out) <= RecursionLimit
  /\ (~ENABLED NextPostData) <=> Returned(call_in.update, call_out)

\* a link of the record in process was classified with the role thumbnail
\* or data and answered its probe
HasValidatedThumbnailOrData ==
  \E n \in DOMAIN probes :
    /\ probes[n] = "ok"
    /\ get_media_type(Record(i).links[n].url).role \in {"thumbnail", "data"}

\* C18 as stated: a record with a validated asset of role thumbnail or data
\* is not rejected with no_data.
C18_StatedNotNoData ==
  [][ (pc = "supplemented" /\ HasValidatedThumbnailOrData)
      => ~(i \in DOMAIN processed_records' /\ processed_records'[i].reason = "no_data") ]_vars

\* the map service of a record answered, its data link did not, and the
\* record reaches check_stac_ok with the map request among its assets and
\* no thumbnail asset
C18_Witness ==
  /\ pc = "supplemented"
  /\ probes = <<"ok", "fail">>
  /\ get_media_type(Record(i).links[1].url).asset_type = "wms"
  /\ U_wms_request \in Range(metadata.assets)
  /\ metadata.thumbnail_assets = <<>>
  /\ metadata.data_assets = <<>>

\* the rest of C18: apart from map services, whose request is added to the
\* assets alone, no_data is recorded only for records without any validated
\* link of role thumbnail or data
C18_NoDataExceptWms ==
  [][ (pc = "supplemented" /\ i \in DOMAIN processed_records' /\ processed_records'[i].reason = "no_data")
      => \A n \in DOMAIN probes :
           (probes[n] = "ok" /\ get_media_type(Record(i).links[n].url).role \in {"thumbnail", "data"})
           => get_media_type(Record(i).links[n].url).asset_type = "wms" ]_vars

\* C19: when add_or_use_variable_family, add_or_use_collection or add_item
\* has changed the tree in memory and returns, the tree on durable storage
\* is the tree in memory.
C19_SavedBeforeReturn ==
  [][ (pc \in {"checked", "family", "collection"} /\ pc' # "stopped" /\ stac_catalog' # stac_catalog)
      => disk_catalog' = stac_catalog' ]_vars

\* the first record of the first run was added to an empty catalog: a
\* family, a collection and an item were added, and the tree on durable
\* storage holds the three
C19_Witness ==
  /\ pc = "added"
  /\ runs = 1
  /\ i = 1
  /\ Len(disk_catalog.children) = 1
  /\ Len(disk_catalog.children[1].children) = 1
  /\ Len(disk_catalog.children[1].children[1].items) = 1
  /\ disk_catalog = stac_catalog

\* the identifier add_or_use_variable_family computes for the record in process
CandidateFamilyId == custom_slugify(Chars(lookup_variable_family(metadata)))

\* the identifier add_or_use_collection computes for the record in process
CandidateCollectionId ==
  collection_id(lookup_collection(metadata), unique_providers(update_providers(metadata).provider))

\* C20: add_or_use_variable_family / add_or_use_collection on an identifier
\* a sibling already has returns that sibling and leaves the tree, in memory
\* and on durable storage, as it is.
C20_ExistingNodeKept ==
  [][ /\ (pc = "checked" /\ pc' = "family" /\ CandidateFamilyId \in Range(Ids(stac_catalog.children)))
         => /\ stac_catalog' = stac_catalog
            /\ disk_catalog' = disk_catalog
            /\ stac_catalog.children[family'].id = CandidateFamilyId
      /\ (pc = "family" /\ pc' = "collection"
            /\ CandidateCollectionId \in Range(Ids(stac_catalog.children[family].children)))
         => /\ stac_catalog' = stac_catalog
            /\ disk_catalog' = disk_catalog
            /\ stac_catalog.children[family].children[collection'].id = CandidateCollectionId ]_vars

\* add_or_use_collection returned a collection that holds an item and whose
\* license and providers are not those of the record in process
C20_Witness ==
  /\ pc = "collection"
  /\ CurrentCollection.items # <<>>
  /\ CurrentCollection.license = "CC-BY-4.0"
  /\ metadata.license = "CC0-1.0"
  /\ CurrentCollection.providers # unique_providers(metadata.provider)

\* the step is taken by the program, not by a kill of the process
ProgramStep == ~(pc' = "stopped" /\ exception' = "")

\* the collection add_or_use_collection returned, after the step
NewCollection == stac_catalog'.children[family].children[collection']

\* C21 as stated: add_or_use_collection on an identifier no collection of
\* the family has creates a collection of that identifier as the last child
\* of the family, saves the tree and returns it, whether or not a provider
\* name holds 'EMODnet'.
C21_StatedCollectionCreated ==
  [][ (pc = "family" /\ ProgramStep
         /\ CandidateCollectionId \notin Range(Ids(stac_catalog.children[family].children)))
      => /\ pc' = "collection"
         /\ collection' = Len(stac_catalog.children[family].children) + 1
         /\ NewCollection.id = CandidateCollectionId
         /\ disk_catalog' = stac_catalog' ]_vars

\* add_or_use_collection raised on a record none of whose provider names
\* holds 'EMODnet'
C21_Witness ==
  /\ pc = "stopped"
  /\ exception = "UnboundLocalError"
  /\ runs = 1

\* the rest of C21: when a provider name holds 'EMODnet' the collection is
\* created with the prefix emodnet-, attached and saved
C21_CreatedWithMarker ==
  [][ (pc = "family" /\ ProgramStep
         /\ HasConvention(unique_providers(update_providers(metadata).provider))
         /\ CandidateCollectionId \notin Range(Ids(stac_catalog.children[family].children)))
      => /\ pc' = "collection"
         /\ collection' = Len(stac_catalog.children[family].children) + 1
         /\ NewCollection.id = CandidateCollectionId
         /\ SubSeq(NewCollection.id, 1, 8) = <<"e", "m", "o", "d", "n", "e", "t", "-">>
         /\ NewCollection.items = <<>>
         /\ disk_catalog' = stac_catalog' ]_vars

\* the label of the first key, in table order, found in the first of a
\* sequence of values that holds any key; hits[v] are the rows whose key
\* the v-th value holds
Precedence(rows, hits) ==
  IF \E v \in DOMAIN hits : hits[v] # {}
  THEN LET v == CHOOSE w \in DOMAIN hits : hits[w] # {} /\ \A u \in 1..(w - 1) : hits[u] = {}
           r == CHOOSE q \in hits[v] : \A o \in hits[v] : q <= o
       IN rows[r][2]
  ELSE "EMODnet"

Looked == Len(call_out) = 3

\* the layers of a record: the rows found in its provider names, its asset
\* URLs, its abstract and its subjects (exact entries of the list)
OfProviders(rows) == [v \in DOMAIN call_in.provider |->
                        {r \in DOMAIN rows : IsSubstr(rows[r][3], Chars(call_in.provider[v].name))}]
OfAssets(rows) == [v \in DOMAIN call_in.assets |->
                     {r \in DOMAIN rows : rows[r][1] \in UrlKeys(call_in.assets[v])}]
OfAbstract(rows) == <<{r \in DOMAIN rows : IsSubstr(rows[r][3], Chars(call_in.abstract))}>>
OfSubjects(rows) == <<{r \in DOMAIN rows : rows[r][1] \in Range(call_in.subjects)}>>
\* the layers of lookup_variable_family: the lower-cased asset URLs, title
\* and subjects, and the keys that hold a provider name
OfLowerAssets(rows) == [v \in DOMAIN call_in.assets |->
                          {r \in DOMAIN rows : rows[r][1] \in UrlKeysLower(call_in.assets[v])}]
OfLowerTitle(rows) == <<{r \in DOMAIN rows : call_in.title # <<>> /\ IsSubstr(rows[r][3], Lower(call_in.title))}>>
OfLowerSubjects(rows) == [v \in DOMAIN call_in.subjects |->
                            {r \in DOMAIN rows : IsSubstr(rows[r][3], Lower(Chars(call_in.subjects[v])))}]
OfKeysHoldingProvider(rows) == [v \in DOMAIN call_in.provider |->
                                  {r \in DOMAIN rows : IsSubstr(Chars(call_in.provider[v].name), rows[r][3])}]

PresentDates ==
  SelectSeq(<<call_in.created, call_in.date, call_in.issued, call_in.modified>>, LAMBDA y : y # 0)

NoPreset == call_in.start_datetime = 0 /\ call_in.end_datetime = 0

DatetimesUpdated == call_out # <<>>

\* C23: for a record without start and end, update_datetimes gives as
\* start the least of the present created, date, issued and modified and as
\* end the greatest; with none present the start is 1970-01-01, and with
\* none present or end equal to start the end is 2100-01-01.
C23_MinMaxWithDefaults ==
  (DatetimesUpdated /\ NoPreset) =>
    LET present == Range(PresentDates)
        out == call_out[1]
    IN /\ present = {} => out.start_datetime = 1970 /\ out.end_datetime = 2100
       /\ present # {} =>
            /\ out.start_datetime \in present
            /\ \A y \in present : out.start_datetime <= y
            /\ IF \E y \in present : y # out.start_datetime
               THEN out.end_datetime \in present /\ \A y \in present : y <= out.end_datetime
               ELSE out.end_datetime = 2100
       /\ \A f \in {"created", "date", "issued", "modified"} : out[f] = call_in[f]

\* a record whose later fields both lower the start and raise the end
C23_Witness ==
  /\ DatetimesUpdated /\ NoPreset
  /\ call_in.created = 2000 /\ call_in.date = 1960 /\ call_in.issued = 0 /\ call_in.modified = 2150
  /\ call_out[1].start_datetime = 1960 /\ call_out[1].end_datetime = 2150

\* C28 as stated: whatever fields among created, date, issued and modified
\* are present and whatever their values, dates after 2100-01-01 included,
\* update_datetimes returns a start that is not after the end.
C28_StatedStartNotAfterEnd ==
  DatetimesUpdated => call_out[1].start_datetime <= call_out[1].end_datetime

\* a record whose only date is after 2100: the end equals the start and is
\* replaced by 2100-01-01
C28_Witness ==
  /\ DatetimesUpdated /\ NoPreset
  /\ Range(PresentDates) = {2150}
  /\ call_out[1].start_datetime = 2150
  /\ call_out[1].end_datetime = DEFAULT_END

\* the rest of C28: for a record without start and end, the start is not
\* after the end when no date is present or one is not after 2100-01-01
C28_OrderedUpTo2100 ==
  (DatetimesUpdated /\ NoPreset /\ (PresentDates = <<>> \/ \E y \in Range(PresentDates) : y <= DEFAULT_END))
    => call_out[1].start_datetime <= call_out[1].end_datetime

\* the items of a catalog tree that have the identifier of a title
ItemsOf(catalog, title) ==
  SelectSeq(get_all_items(catalog), LAMBDA item : item.id = custom_slugify(title))

\* C24: a crash after add_item has saved the catalog and before
\* update_progress has saved the progress store leaves a saved catalog with
\* an item of the record and a saved progress store without an entry of it.
C24_CrashBetweenSaves ==
  [][ (pc = "added" /\ ~ProgramStep)
      => /\ ItemsOf(disk_catalog', metadata.title) # <<>>
         /\ i \notin DOMAIN disk_processed'
         /\ disk_catalog' = stac_catalog
         /\ disk_processed' = processed_records ]_vars

\* the state after such a crash in a first run: an item is in the saved
\* catalog and the saved progress store is empty
C24_Witness ==
  /\ pc = "stopped"
  /\ exception = ""
  /\ runs = 1
  /\ disk_processed = NoProgress
  /\ Len(get_all_items(disk_catalog)) = 1

\* C27 as stated: no two items of the catalog tree, in one collection or in
\* two, have the same identifier.
C27_StatedItemIdsUnique ==
  LET ids == Ids(get_all_items(stac_catalog))
  IN \A a, b \in DOMAIN ids : ids[a] = ids[b] => a = b

\* a record without a progress entry is being attempted, and no other
\* record of the file has its identifier: an item of that identifier in the
\* catalog was saved by an earlier attempt on the record that never reached
\* the progress write
OwnItemAttempted ==
  /\ pc # "stopped"
  /\ i <= NumRecords
  /\ i \notin DOMAIN processed_records
  /\ \A j \in 1..NumRecords :
        j # i => custom_slugify(Record(j).title) # custom_slugify(Record(i).title)

\* C25 as stated: when a record whose item is in the saved catalog and that
\* has no progress entry is processed again, add_item rejects it and the
\* catalog holds exactly one item of it afterwards.
C25_StatedRetryKeepsOneItem ==
  OwnItemAttempted => Len(ItemsOf(stac_catalog, Record(i).title)) <= 1

\* the retry of a record after a crash between the two saves: fewer of its
\* links answered than the first time, the record was classified into
\* another collection, and a second item of it was added there
C25_Witness ==
  /\ OwnItemAttempted
  /\ runs = 2
  /\ pc = "added"
  /\ Record(i).title = <<"D">>
  /\ Len(ItemsOf(disk_catalog, Record(i).title)) = 2

\* two records of one title were classified into two collections: both
\* were added and the saved catalog holds two items of one identifier
C27_Witness ==
  /\ pc = "added"
  /\ runs = 1
  /\ i = 2
  /\ Record(1).title = Record(2).title
  /\ \E a, b \in DOMAIN get_all_items(disk_catalog) :
        /\ a < b
        /\ get_all_items(disk_catalog)[a].id = get_all_items(disk_catalog)[b].id

\* the rest of C27: the items of one collection have different identifiers
C27_UniqueInCollection ==
  LET colls == get_collections(stac_catalog)
  IN \A c \in DOMAIN colls : \A a, b \in DOMAIN colls[c].items :
        colls[c].items[a].id = colls[c].items[b].id => a = b

\* C29: a record that has a progress entry, successful or failed, is
\* skipped: the loop goes to the next record, no link is probed, and the
\* catalog and the progress store, in memory and saved, stay as they are.
\* Within a run the loop only moves forward, one record at a time, so no
\* record is attempted twice.
C29_ProcessedSkippedOnce ==
  [][ /\ (pc = "loop" /\ i <= NumRecords /\ i \in DOMAIN processed_records /\ ProgramStep)
         => /\ pc' = "loop"
            /\ i' = i + 1
            /\ i \in skipped'
            /\ UNCHANGED <<stac_catalog, disk_catalog, processed_records, disk_processed,
                           metadata, probes, family, collection>>
      /\ (pc # "stopped" /\ pc' # "stopped")
         => /\ runs' = runs
            /\ i' \in {i, i + 1}
            /\ i' = i + 1 => pc' = "loop"
            /\ (pc = "loop" /\ pc' # "loop") => i' = i /\ i \notin DOMAIN processed_records ]_vars

\* a later run skipped a record whose entry says failed, and the catalog
\* has no item of it
C29_Witness ==
  /\ runs > 1
  /\ \E id \in skipped :
        /\ processed_records[id].in_stac = "failed"
        /\ ItemsOf(stac_catalog, Record(id).title) = <<>>
        /\ disk_processed[id] = processed_records[id]

\* a sequence of nodes after one node without children or items was
\* appended to it, or left as it was
AppendedEmpty(before, after, n) ==
  \/ after = before
  \/ /\ n = Len(before) + 1
     /\ Len(after) = n
     /\ SubSeq(after, 1, Len(before)) = before

Classifiable(assets) ==
  {assets[n] : n \in {m \in DOMAIN assets :
                        /\ get_media_type(assets[m]).asset_type # None
                        /\ get_media_type(assets[m]).mediatype # None}}

\* the items of the collection after add_item, and the one it appended
NewCollectionItems == stac_catalog'.children[family].children[collection].items

InsertedItem == NewCollectionItems[Len(NewCollectionItems)]

\* C30 as stated: the item inserted for a record has one asset for each
\* classifiable URL of the record's asset list, also when two of the URLs
\* are of one asset type.
C30_StatedEveryUrlAnAsset ==
  [][ (pc = "collection" /\ pc' = "added")
      => /\ Cardinality(DOMAIN InsertedItem.assets) = Cardinality(Classifiable(metadata.assets))
         /\ \A url \in Classifiable(metadata.assets) :
               \E t \in DOMAIN InsertedItem.assets : InsertedItem.assets[t].href = url ]_vars

\* an item was inserted for a record with two validated .zip links: it has
\* one asset, of the second link
C30_Witness ==
  /\ pc = "added"
  /\ metadata.assets = <<U_zip, U_zip2>>
  /\ LET item == CurrentCollection.items[Len(CurrentCollection.items)]
     IN /\ DOMAIN item.assets = {"zip"}
        /\ item.assets["zip"].href = U_zip2

\* the rest of C30: the item has one asset for each asset type among the
\* classifiable URLs, that of the last URL of the type
C30_OneAssetPerType ==
  [][ (pc = "collection" /\ pc' = "added")
      => /\ DOMAIN InsertedItem.assets = {get_media_type(url).asset_type : url \in Classifiable(metadata.assets)}
         /\ \A t \in DOMAIN InsertedItem.assets :
               LET last == SetMax({n \in DOMAIN metadata.assets :
                                     get_media_type(metadata.assets[n]).asset_type = t})
               IN InsertedItem.assets[t].href = metadata.assets[last] ]_vars

====
